---- MODULE Spec2Model ----
(***************************************************************************)
(* Verification model of cuda-chan's core: the priority event queue        *)
(* (core/event_queue.py), the request rate limiter and the decision        *)
(* client (ai/claude_brain.py, ai/response_parser.py) and the tick loop    *)
(* with its speech dispatch (core/orchestrator.py, output/tts_manager.py). *)
(*                                                                         *)
(* Each component has its own specification over the shared variables;     *)
(* a component's actions leave the other components' variables unchanged.  *)
(***************************************************************************)
EXTENDS Integers, Sequences, FiniteSets, TLC

(***************************************************************************)
(* Bounds of the model.                                                    *)
(***************************************************************************)
\* largest max_size an EventQueue is constructed with
MaxQueueSize == 4
\* number of put_nowait calls explored on one queue
MaxPuts == 4
\* largest clock reading of the queue's clock
MaxClock == 1
\* largest max_rpm a RateLimiter is constructed with
MaxRpm == 2
\* clock readings of the rate limiter per 60-second window
TicksPerWindow == 2
\* number of clock advances of the rate limiter's clock
MaxTicks == 4
\* number of acquire() calls explored on one rate limiter
MaxAcquires == 4
\* number of tasks calling one rate limiter concurrently
MaxCallers == 2
\* number of decision requests explored on one ClaudeBrain
MaxRequests == 1
\* number of ticks of the main loop
MaxLoopTicks == 3
\* number of _execute_speak calls
MaxSpeaks == 2
\* length, in symbols, of the response texts given to the parser
MaxTextLen == 3
\* number of calls of the voice callback
MaxSpeech == 2
\* length, in symbols, of the contents of the control-input actions
MaxActionLen == 3
\* how far, in characters, the explored speech is from the character cap
MaxOver == 3
\* the largest timeout, in seconds, given to get and wait_for_event
MaxTimeout == 2
\* how long, in seconds, a caller of get or wait_for_event is followed
MaxWait == 3
\* number of events a caller of get or wait_for_event takes from the queue
MaxGets == 3
\* number of SetEmotion dispatches
MaxEmotions == 2
\* clock ticks in one second of the input rate limit
InputTicksPerSecond == 2
\* the largest max_actions_per_second
MaxInputRate == 2
\* how long, in ticks, the input controller is followed
MaxInputClock == 3
\* number of game actions dispatched
MaxGameActions == 3
\* numbers of entries given to the rolling lists of the state manager
MaxMessages == 22
MaxActionsAdded == 52
MaxOutcomes == 12
MaxAchievements == 52
\* number of speak() calls made by the callers of the TTS manager
MaxUtterances == 5
\* number of requests sent on the avatar WebSocket
MaxRequestsSent == 4
\* number of cancellations of the tick loop's task
MaxCancels == 1

(***************************************************************************)
(* core/event_queue.py: Priority                                           *)
(***************************************************************************)
CRITICAL == 0
HIGH == 1
MEDIUM == 2
LOW == 3
BACKGROUND == 4

Priority == {CRITICAL, HIGH, MEDIUM, LOW, BACKGROUND}

VARIABLES
  \* ---- EventQueue ----
  max_size,          \* EventQueue.max_size
  heap,              \* EventQueue._queue._queue: the heapq list of asyncio.PriorityQueue
  processed_count,   \* EventQueue._processed_count
  dropped_count,     \* EventQueue._dropped_count
  qclock,            \* datetime.now() as last read by the queue's callers
  \* history of the queue's calls (not program state)
  nputs,             \* number of put_nowait calls made
  rejected,          \* number of put_nowait calls that returned False
  dequeued,          \* events returned by get_nowait since the last accepted put
  qlast,             \* the last call: its name, result, qsize() before it, whether it changed the heap
  scenario,          \* progress of the scenario LOW, CRITICAL, MEDIUM, HIGH on a fresh queue
  \* ---- RateLimiter ----
  max_rpm,           \* RateLimiter.max_rpm
  requests,          \* RateLimiter.requests: the deque of recorded request times
  rclock,            \* datetime.now() of the rate limiter's callers, in seconds
  rticks,            \* number of advances of rclock
  callers,           \* the tasks that call the rate limiter
  acq,               \* per caller: its acquire() in flight (pc "idle" or "sleeping", wake time)
                     \* and that call's history (when called, what it found, how it slept)
  nacquires,         \* number of acquire() calls started
  remaining,         \* result of the latest get_remaining()
  acquired,          \* history: the latest acquire() that returned
  \* ---- ClaudeBrain ----
  bpc,               \* where the decision request in flight is: "idle" (none), "acquire"
                     \* (in rate_limiter.acquire), "api" (backend call in the executor),
                     \* "backoff" (tenacity's sleep between attempts)
  entry,             \* the entry point of the request in flight or last returned
  attempt,           \* tenacity's attempt number of the request
  result,            \* what the last request returned: a ParsedResponse or None
  handed,            \* the action the caller handed to Orchestrator._execute_ai_action
  total_requests,    \* ClaudeBrain.total_requests
  failed_requests,   \* ClaudeBrain.failed_requests
  nrequests,         \* number of decision requests made
  ncalls,            \* history: number of backend calls started
  nacquired,         \* history: number of rate_limiter.acquire() calls completed
  req,               \* history of the request: backend calls, success, exception raised
                     \* to the caller, the response as parsed
  \* ---- Orchestrator, TTSManager, VTubeController ----
  running,           \* Orchestrator.running
  opc,               \* where the task of Orchestrator.run is: "new" (initialize not
                     \* called), "failed" (initialize returned False), "init" (run not called),
                     \* "synth" (in tts.generate_speech), "wait" (in _execute_speak's
                     \* polling loop), "effector" (in vtube.set_emotion or
                     \* input_controller.execute_action), "decide" (in
                     \* brain.idle_behavior), "sleep" (between ticks), "stopped" (the
                     \* loop was left), "crashed" (run raised)
  ctx,               \* what the task is running: "startup" (_startup_greeting) or "tick"
  sm_is_speaking,    \* StateManager.is_speaking
  tts_is_speaking,   \* TTSManager.is_speaking
  audio_queue,       \* TTSManager.audio_queue: the ids of the speak calls whose audio waits
  wpc,               \* the playback worker: "waiting" (in audio_queue.get) or "playing"
  playing,           \* the audio being played, 0 if none
  finished,          \* history: the audio whose playback the worker is done with
  authenticated,     \* VTubeController.authenticated
  anim,              \* the animate_speaking task: "none", "running", "raised"
  nspeaks,           \* number of _execute_speak calls started
  nticks,            \* number of ticks started
  speak,             \* history of the latest _execute_speak call: its id, how synthesis
                     \* ended, whether the call has ended
  exc,               \* history: the latest exception raised inside a tick: the tick, the
                     \* site, the function that caught it
  \* ---- ResponseParser, called on its own ----
  ppc,               \* "input" (nothing called), "parsed" (parse returned), "validated"
  praw,              \* the response text given to parse
  pparsed,           \* the ParsedResponse returned by parse, content as validate_action left it
  pvalid,            \* the verdict of validate_action
  \* ---- the producers: chat callback, voice callback ----
  putters,           \* asyncio.Queue._putters: the events whose put() is suspended
  chat_context,      \* len(StateManager.chat_context.recent_messages)
  offered_full,      \* history: number of put() calls made on a full queue
  nspeech,           \* number of calls of the voice callback
  speech_heard,      \* history: number of non-empty transcriptions delivered to it
  speech_enqueued,   \* history: number of operator-speech events it enqueued
  nproduced,         \* history: number of producer steps (callback runs) so far
  \* ---- the orchestrator's shutdown ----
  system_state,      \* StateManager.system_state
  cancelled,         \* the tasks of Orchestrator.tasks that shutdown() cancelled and awaited
  inflight,          \* number of decision requests the backend has not answered
  handled,           \* the handler _process_event called in the latest tick, or "none"
  \* ---- validate_action and the input controller, called on their own ----
  vpc,               \* "input", "once", "twice", "executed"
  vaction,           \* the ParsedResponse, as validate_action left it
  vverdicts,         \* the verdicts of the calls of validate_action so far
  vcontents,         \* the content after each call of validate_action
  vexecuted,         \* the executor the input controller forwarded the action to
  \* ---- one caller of EventQueue.get or EventQueue.wait_for_event ----
  gpc,               \* "idle", "waiting" (suspended in get), "looping", "returned"
  gcall,             \* the call: operation, timeout, requested type
  gelapsed,          \* seconds since the call
  ginner,            \* seconds since the get the caller is suspended in began
  gresult,           \* <<>> for None, or <<event>>
  \* ---- Orchestrator._execute_emotion ----
  emotional_state,   \* StateManager.emotional_state (the value of the enum member)
  hotkey,            \* the hotkey name last sent to the renderer, "none" before
  emotion,           \* the emotion name of the last dispatch, "none" before
  nemotions,         \* number of SetEmotion dispatches
  \* ---- InputController, ActionValidator's rate limit, ActionHistory ----
  max_actions_per_second,  \* ActionValidator.max_actions_per_second
  action_count,      \* ActionValidator.action_count
  last_reset_time,   \* ActionValidator.last_reset_time, in ticks
  iclock,            \* time.time(), in ticks since the validator was made
  actions,           \* ActionHistory.actions
  executed,          \* the calls of the input executor: time, action, outcome
  \* ---- the rolling lists of StateManager ----
  recent_messages,   \* ChatContext.recent_messages
  active_users,      \* ChatContext.active_users
  recent_outcomes,   \* GameState.recent_outcomes
  achievements,      \* GameState.achievements
  added,             \* how many entries each list was given
  \* ---- ChatParser ----
  last_chat,         \* the parsed message _handle_chat_message enqueued last
  \* ---- VTubeStudioController: the WebSocket ----
  ws_lock,           \* the task that holds _ws_lock, "none" when it is free
  ws_waiters,        \* the tasks suspended in _ws_lock.acquire, first come first
  ws_pc,             \* per task: "idle", "lock" (waits for the lock), "recv" (has sent)
  ws_request,        \* per task: the requestID of its request, 0 when none
  ws_unread,         \* requestIDs of the requests sent whose response nobody read yet
  ws_got,            \* per task: the request and the response of its last exchange
  message_id,        \* VTubeStudioController._message_id
  ncancels           \* number of cancellations delivered

qvars == <<max_size, heap, processed_count, dropped_count, qclock,
           nputs, rejected, dequeued, qlast, scenario>>

rvars == <<max_rpm, requests, rclock, rticks, callers, acq, nacquires, remaining, acquired>>

bvars == <<bpc, entry, attempt, result, handed, total_requests, failed_requests,
           nrequests, ncalls, nacquired, req>>

ovars == <<running, opc, ctx, sm_is_speaking, tts_is_speaking, audio_queue, wpc, playing,
           finished, authenticated, anim, nspeaks, nticks, speak, exc>>

pvars == <<ppc, praw, pparsed, pvalid>>

hvars == <<putters, chat_context, offered_full, nspeech, speech_heard, speech_enqueued,
           nproduced>>

svars == <<system_state, cancelled, inflight, handled>>

vvars == <<vpc, vaction, vverdicts, vcontents, vexecuted>>

gvars == <<gpc, gcall, gelapsed, ginner, gresult>>

evars == <<emotional_state, hotkey, emotion, nemotions>>

\* the state of the components added last
ivars == <<max_actions_per_second, action_count, last_reset_time, iclock, actions, executed>>

lvars == <<recent_messages, active_users, recent_outcomes, achievements, added>>

cvars == <<last_chat>>

wvars == <<ws_lock, ws_waiters, ws_pc, ws_request, ws_unread, ws_got, message_id, ncancels>>

xvars == <<evars, ivars, lvars, cvars, wvars>>

vars == <<qvars, rvars, bvars, ovars, pvars, hvars, svars, vvars, gvars, xvars>>

(***************************************************************************)
(* core/event_queue.py: EventType, the values of its attributes that the   *)
(* orchestrator enqueues or tests.                                         *)
(***************************************************************************)
CHAT_MESSAGE == "chat_message"
GAME_STATE_CHANGE == "game_state_change"
SYSTEM_SHUTDOWN == "system_shutdown"
AUTONOMOUS_DECISION == "autonomous_decision"

\* event types in a fixed order; the k-th enqueue call of a run that has to
\* tell its events apart uses the k-th
EventTypeValues ==
  <<"chat_message", "chat_command", "game_state_change", "game_action_complete",
    "game_start", "game_end", "system_error", "system_startup", "tts_complete",
    "expression_change", "idle_action">>

(***************************************************************************)
(* Event: dataclass(order=True) compares (priority, timestamp) only;       *)
(* event_type is not compared.                                             *)
(***************************************************************************)
\* the default of Event.id: f"evt_{datetime.now().timestamp()}"
EventId(now) == <<"evt_", now>>

Event(event_type, priority, now) ==
  [priority |-> priority, timestamp |-> now, event_type |-> event_type, id |-> EventId(now)]

EventLess(a, b) ==
  \/ a.priority < b.priority
  \/ a.priority = b.priority /\ a.timestamp < b.timestamp

(***************************************************************************)
(* heapq, as used by asyncio.PriorityQueue._put / _get.  Positions are     *)
(* 0-based as in the Python code; h[pos + 1] is heap[pos].                 *)
(***************************************************************************)
RECURSIVE SiftDownLoop(_, _, _, _)
SiftDownLoop(h, startpos, pos, newitem) ==
  IF pos > startpos
  THEN LET parentpos == (pos - 1) \div 2
           parent == h[parentpos + 1]
       IN IF EventLess(newitem, parent)
          THEN SiftDownLoop([h EXCEPT ![pos + 1] = parent], startpos, parentpos, newitem)
          ELSE [h EXCEPT ![pos + 1] = newitem]
  ELSE [h EXCEPT ![pos + 1] = newitem]

SiftDown(h, startpos, pos) == SiftDownLoop(h, startpos, pos, h[pos + 1])

RECURSIVE SiftUpLoop(_, _, _, _)
SiftUpLoop(h, startpos, pos, newitem) ==
  LET endpos == Len(h)
      leftpos == 2 * pos + 1
  IN IF leftpos < endpos
     THEN LET rightpos == leftpos + 1
              childpos == IF rightpos < endpos /\ ~EventLess(h[leftpos + 1], h[rightpos + 1])
                          THEN rightpos ELSE leftpos
          IN SiftUpLoop([h EXCEPT ![pos + 1] = h[childpos + 1]], startpos, childpos, newitem)
     ELSE SiftDown([h EXCEPT ![pos + 1] = newitem], startpos, pos)

SiftUp(h, pos) == SiftUpLoop(h, pos, pos, h[pos + 1])

HeapPush(h, item) == SiftDown(Append(h, item), 0, Len(h))

\* the item heappop returns
HeapPopItem(h) == h[1]

\* heappop that moves the last item to the root and does not sift it
HeapPopRestNoSift(h) ==
  LET lastelt == h[Len(h)]
      rest == SubSeq(h, 1, Len(h) - 1)
  IN IF rest # <<>> THEN [rest EXCEPT ![1] = lastelt] ELSE rest

\* the list heappop leaves
HeapPopRest(h) ==
  LET lastelt == h[Len(h)]
      rest == SubSeq(h, 1, Len(h) - 1)
  IN IF rest # <<>> THEN SiftUp([rest EXCEPT ![1] = lastelt], 0) ELSE rest

(***************************************************************************)
(* asyncio.Queue.full(): a maxsize <= 0 queue is never full.               *)
(***************************************************************************)
QueueFull(h, maxsize) == IF maxsize <= 0 THEN FALSE ELSE Len(h) >= maxsize

qsize == Len(heap)

(***************************************************************************)
(* EventQueue.__init__                                                     *)
(***************************************************************************)
NoCall == [op |-> "none", ok |-> TRUE, size_before |-> 0, changed |-> FALSE]

InitQueue ==
  /\ max_size \in 1..MaxQueueSize
  /\ heap = <<>>
  /\ processed_count = 0
  /\ dropped_count = 0
  /\ qclock = 0
  /\ nputs = 0
  /\ rejected = 0
  /\ dequeued = <<>>
  /\ qlast = NoCall
  /\ scenario = 0

\* the scenario's enqueue order
ScenarioA == <<LOW, CRITICAL, MEDIUM, HIGH>>

\* scenario after an accepted put of priority p: the next step of ScenarioA on
\* a queue nothing else was done to, or off (-1)
ScenarioPut(p) ==
  IF scenario >= 0 /\ scenario < Len(ScenarioA) /\ ScenarioA[scenario + 1] = p
  THEN scenario + 1 ELSE -1

\* scenario after a get: still on only once all of ScenarioA is enqueued
ScenarioGet == IF scenario = Len(ScenarioA) THEN scenario ELSE -1

(***************************************************************************)
(* EventQueue.put_nowait: Event(...) reads the clock, then                 *)
(* asyncio.Queue.put_nowait raises QueueFull on a full queue.              *)
(***************************************************************************)
\* a capacity test that is off by one
PutNowaitFullOffByOne(h, maxsize) == IF maxsize <= 0 THEN FALSE ELSE Len(h) > maxsize

PutNowaitFull(h, maxsize) == QueueFull(h, maxsize)

put_nowait(event_type, priority, now) ==
  LET event == Event(event_type, priority, now)
      full == PutNowaitFull(heap, max_size)
      h2 == IF full THEN heap ELSE HeapPush(heap, event)
  IN /\ nputs < MaxPuts
     /\ nputs' = nputs + 1
     /\ qclock' = now
     /\ heap' = h2
     /\ dropped_count' = IF full THEN dropped_count + 1 ELSE dropped_count
     /\ rejected' = IF full THEN rejected + 1 ELSE rejected
     /\ dequeued' = IF full THEN dequeued ELSE <<>>
     /\ scenario' = IF full THEN -1 ELSE ScenarioPut(priority)
     /\ qlast' = [op |-> "put_nowait", ok |-> ~full, size_before |-> Len(heap),
                  changed |-> h2 # heap]
     /\ UNCHANGED <<max_size, processed_count>>

(***************************************************************************)
(* EventQueue.put: Event(...) reads the clock, then asyncio.Queue.put      *)
(* suspends the caller while the queue is full.                            *)
(***************************************************************************)
put(event_type, priority, now) ==
  LET event == Event(event_type, priority, now)
  IN /\ nputs < MaxPuts
     /\ nputs' = nputs + 1
     /\ qclock' = now
     /\ IF QueueFull(heap, max_size)
        THEN /\ putters' = Append(putters, event)
             /\ offered_full' = offered_full + 1
             /\ qlast' = [op |-> "put suspended", ok |-> FALSE, size_before |-> Len(heap),
                          changed |-> FALSE]
             /\ UNCHANGED <<heap, dequeued, scenario>>
        ELSE /\ heap' = HeapPush(heap, event)
             /\ dequeued' = <<>>
             /\ scenario' = ScenarioPut(priority)
             /\ qlast' = [op |-> "put", ok |-> TRUE, size_before |-> Len(heap),
                          changed |-> TRUE]
             /\ UNCHANGED <<putters, offered_full>>
     /\ UNCHANGED <<max_size, processed_count, dropped_count, rejected>>

\* a put() suspended on the full queue, woken by a get, finds room: it
\* enqueues its event and returns True
put_resume ==
  /\ putters # <<>>
  /\ ~QueueFull(heap, max_size)
  /\ heap' = HeapPush(heap, Head(putters))
  /\ putters' = Tail(putters)
  /\ dequeued' = <<>>
  /\ scenario' = -1
  /\ qlast' = [op |-> "put", ok |-> TRUE, size_before |-> Len(heap), changed |-> TRUE]
  /\ UNCHANGED <<max_size, processed_count, dropped_count, rejected, qclock, nputs>>

(***************************************************************************)
(* EventQueue.get_nowait                                                   *)
(***************************************************************************)
get_nowait ==
  /\ IF heap = <<>>
     THEN /\ qlast' = [op |-> "get_nowait", ok |-> FALSE, size_before |-> 0,
                       changed |-> FALSE]
          /\ UNCHANGED <<heap, processed_count, dequeued>>
     ELSE /\ heap' = HeapPopRest(heap)
          /\ processed_count' = processed_count + 1
          /\ dequeued' = Append(dequeued, HeapPopItem(heap))
          /\ qlast' = [op |-> "get_nowait", ok |-> TRUE, size_before |-> Len(heap),
                       changed |-> TRUE]
  /\ scenario' = ScenarioGet
  /\ UNCHANGED <<max_size, dropped_count, qclock, nputs, rejected>>

(***************************************************************************)
(* EventQueue.clear: get_nowait on the inner queue until it is empty; no   *)
(* await inside, so one step.                                              *)
(***************************************************************************)
clear ==
  /\ heap' = <<>>
  /\ dequeued' = <<>>
  /\ scenario' = -1
  /\ qlast' = [op |-> "clear", ok |-> TRUE, size_before |-> Len(heap),
               changed |-> heap # <<>>]
  /\ UNCHANGED <<max_size, processed_count, dropped_count, qclock, nputs, rejected>>


(***************************************************************************)
(* EventQueue.get and EventQueue.wait_for_event, called by one consumer.   *)
(* Time is in seconds.  A timer that is due fires before time goes on, and *)
(* a getter that a put made ready runs before time goes on.                *)
(***************************************************************************)
\* the timeout argument: None, or a number of seconds
NoTimeout == [given |-> FALSE, t |-> 0]

Timeouts == {NoTimeout} \cup {[given |-> TRUE, t |-> k] : k \in 0..MaxTimeout}

\* "if timeout:" in get and in wait_for_event
Truthy(timeout) == timeout.given /\ timeout.t # 0

\* the timeout of the get inside wait_for_event: "await self.get(timeout=1.0)"
InnerTimeout == [given |-> TRUE, t |-> 1]

NoCaller == [op |-> "none", timeout |-> NoTimeout, event_type |-> "", present |-> FALSE]

InitWait ==
  /\ gpc = "idle"
  /\ gcall = NoCaller
  /\ gelapsed = 0
  /\ ginner = 0
  /\ gresult = <<>>

\* the inner queue hands its first event to the getter: "_processed_count += 1"
TakeEvent ==
  /\ heap # <<>>
  /\ processed_count < MaxGets
  /\ heap' = HeapPopRest(heap)
  /\ processed_count' = processed_count + 1
  /\ dequeued' = Append(dequeued, HeapPopItem(heap))
  /\ qlast' = [op |-> "get", ok |-> TRUE, size_before |-> Len(heap), changed |-> TRUE]
  /\ scenario' = -1
  /\ UNCHANGED <<max_size, dropped_count, qclock, nputs, rejected>>

\* the timeout the suspended get was called with
WaitingTimeout == IF gcall.op = "get" THEN gcall.timeout ELSE InnerTimeout

\* get(timeout) is called: an event that is queued is returned at once,
\* otherwise the caller is suspended
GetCall(timeout) ==
  /\ gpc = "idle"
  /\ gcall' = [op |-> "get", timeout |-> timeout, event_type |-> "", present |-> FALSE]
  /\ gelapsed' = 0
  /\ ginner' = 0
  /\ IF heap # <<>>
     THEN /\ TakeEvent
          /\ gresult' = <<HeapPopItem(heap)>>
          /\ gpc' = "returned"
     ELSE /\ gpc' = "waiting"
          /\ UNCHANGED <<qvars, gresult>>

\* a put made the suspended getter ready: get returns the event, and the loop
\* of wait_for_event looks at it
GetWakes ==
  /\ gpc = "waiting"
  /\ TakeEvent
  /\ ginner' = 0
  /\ IF gcall.op = "get" \/ HeapPopItem(heap).event_type = gcall.event_type
     THEN gpc' = "returned" /\ gresult' = <<HeapPopItem(heap)>>
     ELSE gpc' = "requeue" /\ gresult' = <<HeapPopItem(heap)>>
  /\ UNCHANGED <<gcall, gelapsed>>

\* asyncio.wait_for cancels the get when its timeout is over: get returns
\* None, and the loop of wait_for_event starts again
GetTimesOut ==
  /\ gpc = "waiting"
  /\ heap = <<>>
  /\ Truthy(WaitingTimeout)
  /\ ginner >= WaitingTimeout.t
  /\ gpc' = IF gcall.op = "get" THEN "returned" ELSE "looping"
  /\ ginner' = 0
  /\ gresult' = <<>>
  /\ UNCHANGED <<qvars, gcall, gelapsed>>

\* a second passes while the caller is suspended in get
TimePasses ==
  /\ gpc = "waiting"
  /\ heap = <<>>
  /\ Truthy(WaitingTimeout) => ginner < WaitingTimeout.t
  /\ gelapsed < MaxWait
  /\ gelapsed' = gelapsed + 1
  /\ ginner' = ginner + 1
  /\ UNCHANGED <<qvars, gpc, gcall, gresult>>

\* wait_for_event(event_type, timeout) is called: start_time is read and the
\* loop begins
WaitForEventCall(event_type, timeout) ==
  /\ gpc = "idle"
  /\ gpc' = "looping"
  /\ gcall' = [op |-> "wait_for_event", timeout |-> timeout, event_type |-> event_type,
               present |-> \E i \in 1..Len(heap) : heap[i].event_type = event_type]
  /\ gelapsed' = 0
  /\ ginner' = 0
  /\ gresult' = <<>>
  /\ UNCHANGED qvars

\* one pass of the loop of wait_for_event up to its next await that suspends:
\* the timeout test, then get(timeout=1.0) and the comparison of the type
WaitLoop ==
  /\ gpc = "looping"
  /\ ginner' = 0
  /\ IF Truthy(gcall.timeout) /\ gelapsed > gcall.timeout.t
     THEN /\ gpc' = "returned"
          /\ gresult' = <<>>
          /\ UNCHANGED qvars
     ELSE IF heap = <<>>
     THEN /\ gpc' = "waiting"
          /\ UNCHANGED <<qvars, gresult>>
     ELSE /\ TakeEvent
          /\ gresult' = <<HeapPopItem(heap)>>
          /\ gpc' = IF HeapPopItem(heap).event_type = gcall.event_type
                    THEN "returned" ELSE "requeue"
  /\ UNCHANGED <<gcall, gelapsed>>

\* "await self._queue.put(event)": the event of another type goes back into
\* the inner queue (there is room: it was just taken out), and the loop
\* starts again.  The pass did not suspend; it ends within the second it
\* began in (d = 0) or in the next one (d = 1).
Requeue(d) ==
  /\ gpc = "requeue"
  /\ gelapsed + d <= MaxWait
  /\ gelapsed' = gelapsed + d
  /\ ~QueueFull(heap, max_size)
  /\ heap' = HeapPush(heap, gresult[1])
  /\ dequeued' = <<>>
  /\ scenario' = -1
  /\ qlast' = [op |-> "requeue", ok |-> TRUE, size_before |-> Len(heap), changed |-> TRUE]
  /\ gpc' = "looping"
  /\ gresult' = <<>>
  /\ UNCHANGED <<max_size, processed_count, dropped_count, qclock, nputs, rejected, gcall,
                 ginner>>

(***************************************************************************)
(* ai/claude_brain.py: RateLimiter.  Time is in seconds; the clock reads   *)
(* multiples of Window / TicksPerWindow.                                   *)
(***************************************************************************)
\* timedelta(minutes=1), and the 60 of wait_time
Window == 60

ClockStep == Window \div TicksPerWindow

\* "while self.requests and self.requests[0] < now - timedelta(minutes=1): popleft()"
RECURSIVE Evict(_, _)
Evict(reqs, now) ==
  IF reqs # <<>> /\ reqs[1] < now - Window THEN Evict(Tail(reqs), now) ELSE reqs

\* wait_time computed with the age of the oldest request negated
WaitTimeSignError(reqs, now) == Window - (reqs[1] - now)

\* "wait_time = 60 - (now - self.requests[0]).total_seconds()"
WaitTime(reqs, now) == Window - (now - reqs[1])

\* "if len(self.requests) >= self.max_rpm" admitting one request too many
AtLimitOffByOne(reqs) == Len(reqs) > max_rpm

\* "if len(self.requests) >= self.max_rpm"
AtLimit(reqs) == Len(reqs) >= max_rpm

\* acquire() suspends in asyncio.sleep(wait_time)
MustWait(reqs, now) == AtLimit(reqs) /\ WaitTime(reqs, now) > 0

IdleCaller == [pc |-> "idle", wake |-> 0, called |-> 0, at_limit |-> FALSE,
               oldest |-> 0, late |-> 0, sleeps |-> 0]

NoneAcquired == [caller |-> 0, called |-> 0, returned |-> 0, recorded |-> 0,
                 at_limit |-> FALSE, oldest |-> 0, late |-> 0, sleeps |-> 0]

\* RateLimiter.__init__, called by the tasks cs
InitLimiter(cs) ==
  /\ max_rpm \in 1..MaxRpm
  /\ requests = <<>>
  /\ rclock = 0
  /\ rticks = 0
  /\ callers = cs
  /\ acq = [c \in cs |-> IdleCaller]
  /\ nacquires = 0
  /\ remaining = max_rpm
  /\ acquired = NoneAcquired

\* the body of acquire() run by caller c at the clock reading rclock, with
\* call history hist: evict, then sleep or record and return
AcquireBody(c, hist) ==
  LET now == rclock
      reqs == Evict(requests, now)
  IN IF MustWait(reqs, now)
     THEN /\ requests' = reqs
          /\ acq' = [acq EXCEPT ![c] = [hist EXCEPT !.pc = "sleeping",
                                                   !.wake = now + WaitTime(reqs, now),
                                                   !.sleeps = @ + 1]]
          /\ UNCHANGED acquired
     ELSE /\ requests' = Append(reqs, now)
          /\ acq' = [acq EXCEPT ![c] = IdleCaller]
          /\ acquired' = [caller |-> c, called |-> hist.called, returned |-> now,
                          recorded |-> now, at_limit |-> hist.at_limit,
                          oldest |-> hist.oldest, late |-> hist.late,
                          sleeps |-> hist.sleeps]

\* caller c calls acquire()
AcquireCall(c) ==
  LET reqs == Evict(requests, rclock)
      hist == [IdleCaller EXCEPT !.called = rclock,
                                 !.at_limit = (Len(reqs) >= max_rpm),
                                 !.oldest = IF reqs # <<>> THEN reqs[1] ELSE 0]
  IN /\ acq[c].pc = "idle"
     /\ nacquires < MaxAcquires
     /\ nacquires' = nacquires + 1
     /\ AcquireBody(c, hist)
     /\ UNCHANGED <<max_rpm, rclock, rticks, callers, remaining>>

\* asyncio.sleep(wait_time) of caller c ends, at its wake time or later, and
\* "await self.acquire()" runs the body again
AcquireWake(c) ==
  /\ acq[c].pc = "sleeping"
  /\ rclock >= acq[c].wake
  /\ AcquireBody(c, [acq[c] EXCEPT !.late = @ + (rclock - acq[c].wake)])
  /\ UNCHANGED <<max_rpm, rclock, rticks, callers, nacquires, remaining>>

\* RateLimiter.get_remaining
get_remaining ==
  LET reqs == Evict(requests, rclock)
  IN /\ requests' = reqs
     /\ remaining' = max_rpm - Len(reqs)
     /\ UNCHANGED <<max_rpm, rclock, rticks, callers, acq, nacquires, acquired>>

\* time passes
ClockAdvance ==
  /\ rticks < MaxTicks
  /\ rticks' = rticks + 1
  /\ rclock' = rclock + ClockStep
  /\ UNCHANGED <<max_rpm, requests, callers, acq, nacquires, remaining, acquired>>


(***************************************************************************)
(* ai/response_parser.py.  A text is a sequence of symbols; a symbol       *)
(* stands for a fixed piece of text (a prefix, a word, a blank, a mark)    *)
(* and counts as one character.  Responses are single-line.                *)
(***************************************************************************)
\* ActionType
AT_SPEAK == "speak"
AT_EMOTION == "emotion"
AT_ACTION == "action"
AT_THINK == "think"
AT_UNKNOWN == "unknown"

ActionType == {AT_SPEAK, AT_EMOTION, AT_ACTION, AT_THINK, AT_UNKNOWN}

\* ResponseParser.VALID_EMOTIONS
VALID_EMOTIONS == {"happy", "sad", "excited", "focused", "surprised", "neutral",
                   "thinking", "confused", "angry", "joy", "fear"}

\* str.lower() on a symbol
Lower(sym) ==
  CASE sym = "SPEAK:" -> "speak:"
    [] sym = "[SPEAK]" -> "[speak]"
    [] sym = "EMOTION:" -> "emotion:"
    [] sym = "[EMOTION]" -> "[emotion]"
    [] sym = "ACTION:" -> "action:"
    [] sym = "Action:" -> "action:"
    [] sym = "[ACTION]" -> "[action]"
    [] sym = "THINK:" -> "think:"
    [] sym = "[THINK]" -> "[think]"
    [] sym = "HAPPY" -> "happy"
    [] sym = "Shutdown" -> "shutdown"
    [] sym = "Restart" -> "restart"
    [] sym = "Click" -> "click"
    [] sym = "RM " -> "rm "
    [] sym = "Alt+F4" -> "alt+f4"
    [] OTHER -> sym

LowerText(text) == [i \in 1..Len(text) |-> Lower(text[i])]

\* whitespace, as str.strip() and \s see it
IsSpace(sym) == sym = " "

\* a symbol the regex class \w+ matches whole
IsWord(sym) ==
  Lower(sym) \in VALID_EMOTIONS \cup {"ecstatic", "hello", "press", "click", "w", "shutdown"}

RECURSIVE LStrip(_)
LStrip(text) == IF text # <<>> /\ IsSpace(text[1]) THEN LStrip(Tail(text)) ELSE text

RECURSIVE RStrip(_)
RStrip(text) ==
  IF text # <<>> /\ IsSpace(text[Len(text)])
  THEN RStrip(SubSeq(text, 1, Len(text) - 1)) ELSE text

\* str.strip()
Strip(text) == RStrip(LStrip(text))

\* "keyword in text": some symbol of the text is the keyword
Contains(text, keywords) == \E i \in 1..Len(text) : text[i] \in keywords

\* ResponseParser.PATTERNS, matched with re.IGNORECASE: the prefixes of an action type
PatternPrefixes(action_type) ==
  CASE action_type = AT_SPEAK -> {"speak:", "[speak]"}
    [] action_type = AT_EMOTION -> {"emotion:", "[emotion]"}
    [] action_type = AT_ACTION -> {"action:", "[action]"}
    [] action_type = AT_THINK -> {"think:", "[think]"}
    [] OTHER -> {}

\* the group a pattern of action_type captures in the stripped response, or
\* <<>> when no pattern of action_type matches: the prefix, \s*, then (.+)$,
\* or (\w+)$ for AT_EMOTION
PatternGroup(action_type, response) ==
  IF response = <<>> \/ Lower(response[1]) \notin PatternPrefixes(action_type)
  THEN <<>>
  ELSE LET rest == LStrip(Tail(response))
       IN IF action_type = AT_EMOTION
          THEN IF Len(rest) = 1 /\ IsWord(rest[1]) THEN rest ELSE <<>>
          ELSE rest

ParsedResponse(action_type, content, confidence) ==
  [action_type |-> action_type, content |-> content, confidence |-> confidence]

\* ResponseParser._infer_action; confidence in tenths
InferAction(response) ==
  LET response_lower == LowerText(response)
  IN IF Len(response_lower) = 1 /\ response_lower[1] \in VALID_EMOTIONS
     THEN ParsedResponse(AT_EMOTION, response_lower, 7)
     ELSE IF Contains(response_lower, {"!", "?", "i ", "you ", "we ", "chat"})
     THEN ParsedResponse(AT_SPEAK, response, 6)
     ELSE IF Contains(response_lower, {"press", "click", "move", "type", "key", "mouse"})
     THEN ParsedResponse(AT_ACTION, response, 6)
     ELSE ParsedResponse(AT_SPEAK, response, 3)

\* a parse that keeps the lower-cased emotion name as it is
CoerceEmotionVerbatim(content) == LowerText(content)

\* "content = content.lower(); if content not in self.VALID_EMOTIONS:
\* content = 'neutral'"
CoerceEmotion(content) ==
  IF Lower(content[1]) \in VALID_EMOTIONS THEN LowerText(content) ELSE <<"neutral">>

\* ResponseParser.parse; confidence in tenths
Parse(raw) ==
  LET response == Strip(raw)
      matching == {t \in {AT_SPEAK, AT_EMOTION, AT_ACTION, AT_THINK} : PatternGroup(t, response) # <<>>}
  IN IF response = <<>>
     THEN ParsedResponse(AT_UNKNOWN, <<>>, 0)
     ELSE IF matching # {}
     THEN LET action_type == CHOOSE t \in matching : TRUE
              content == Strip(PatternGroup(action_type, response))
          IN IF action_type = AT_EMOTION
             THEN ParsedResponse(AT_EMOTION, CoerceEmotion(content), 10)
             ELSE ParsedResponse(action_type, content, 10)
     ELSE InferAction(response)

\* the character cap of validate_action on SPEAK content
SpeakCap == 500

\* dangerous_keywords of validate_action
DangerousKeywords == {"rm ", "del ", "format", "shutdown", "alt+f4", "cmd+q"}

\* a truncation that adds the ellipsis and cuts nothing
ValidatedContentAppendOnly(parsed) ==
  IF parsed.action_type = AT_SPEAK /\ Len(parsed.content) > SpeakCap
  THEN parsed.content \o <<".", ".", ".">>
  ELSE parsed.content

\* parsed.content after validate_action: an over-long SPEAK is cut and gets "..."
ValidatedContent(parsed) ==
  IF parsed.action_type = AT_SPEAK /\ Len(parsed.content) > SpeakCap
  THEN SubSeq(parsed.content, 1, SpeakCap) \o <<".", ".", ".">>
  ELSE parsed.content

\* validate_action that lets an UNKNOWN action through
ValidateActionNoUnknownCheck(parsed) ==
  /\ parsed.action_type = AT_EMOTION
       => (Len(parsed.content) = 1 /\ Lower(parsed.content[1]) \in VALID_EMOTIONS)
  /\ parsed.action_type = AT_ACTION
       => ~Contains(LowerText(parsed.content), DangerousKeywords)

\* the verdict of ResponseParser.validate_action
ValidateAction(parsed) ==
  /\ parsed.action_type # AT_UNKNOWN
  /\ parsed.action_type = AT_EMOTION
       => (Len(parsed.content) = 1 /\ Lower(parsed.content[1]) \in VALID_EMOTIONS)
  /\ parsed.action_type = AT_ACTION
       => ~Contains(LowerText(parsed.content), DangerousKeywords)

\* the responses of the decision backend that are explored
Responses ==
  { <<>>,
    <<" ">>,
    <<"SPEAK:", " ", "hello", "!">>,
    <<"[EMOTION]", " ", "HAPPY">>,
    <<"EMOTION:", " ", "ecstatic">>,
    <<"ACTION:", " ", "press", " ", "w">>,
    <<"Action:", " ", "Shutdown">>,
    <<"THINK:", " ", "hello">>,
    <<"happy">>,
    <<"press", " ", "w">>,
    <<"click", " ", "Alt+F4">>,
    <<"RM ", "hello">> }

(***************************************************************************)
(* control/action_validator.py: ActionValidator, and                       *)
(* control/input_controller.py: InputController.execute_action.  A text is *)
(* a sequence of symbols; "keyword in text" is Contains.  The explored     *)
(* contents carry no coordinates.                                          *)
(***************************************************************************)
\* ActionValidator.FORBIDDEN_ACTIONS
FORBIDDEN_ACTIONS ==
  {"alt+f4", "cmd+q", "ctrl+alt+delete", "shutdown", "restart", "poweroff",
   "rm -rf", "del /f", "format", "taskkill", "pkill", "kill -9"}

\* ActionValidator.SAFE_KEYS
SAFE_KEYS ==
  {"a", "b", "c", "d", "e", "f", "g", "h", "i", "j", "k", "l", "m",
   "n", "o", "p", "q", "r", "s", "t", "u", "v", "w", "x", "y", "z",
   "0", "1", "2", "3", "4", "5", "6", "7", "8", "9",
   "space", "spacebar", "enter", "return", "escape", "esc",
   "backspace", "tab", "shift", "ctrl", "control", "alt",
   "up", "down", "left", "right",
   "f1", "f2", "f3", "f4", "f5", "f6", "f7", "f8", "f9", "f10", "f11", "f12",
   "home", "end", "pageup", "pagedown", "insert", "delete"}

\* ActionValidator.SAFE_MOUSE_ACTIONS
SAFE_MOUSE_ACTIONS == {"click", "left_click", "right_click", "double_click", "move"}

\* the keywords that make an action a keyboard action, a mouse action
KeyboardKeywords == {"press", "hold", "release", "type", "key"}

MouseKeywords == {"click", "move", "mouse"}

ValidationResult(is_valid, sanitized_action) ==
  [is_valid |-> is_valid, sanitized_action |-> sanitized_action]

\* the positions of a "key" that follows whitespace and a non-empty text
KeySuffixes(action) ==
  {i \in 3..Len(action) : action[i] = "key" /\ IsSpace(action[i - 1])}

\* ActionValidator._parse_keyboard_action: <<action_type, key>>, or <<>> for
\* (None, None); "(press|hold|release|type)\s+(.+)", then "(.+)\s+key", then a
\* single safe key
ParseKeyboardAction(action) ==
  IF /\ Len(action) >= 3
     /\ action[1] \in {"press", "hold", "release", "type"}
     /\ IsSpace(action[2])
     /\ LStrip(Tail(action)) # <<>>
  THEN <<action[1], Strip(Tail(action))>>
  ELSE IF KeySuffixes(action) # {}
  THEN LET i == CHOOSE k \in KeySuffixes(action) : \A j \in KeySuffixes(action) : j <= k
       IN <<"press", Strip(SubSeq(action, 1, i - 1))>>
  ELSE IF Len(action) = 1 /\ action[1] \in SAFE_KEYS
  THEN <<"press", action>>
  ELSE <<>>

\* ActionValidator.validate_keyboard_action
ValidateKeyboardAction(action) ==
  LET action_lower == Strip(LowerText(action))
      parsed == ParseKeyboardAction(action_lower)
  IN IF Contains(action_lower, FORBIDDEN_ACTIONS)
     THEN ValidationResult(FALSE, <<>>)
     ELSE IF parsed = <<>> \/ parsed[2] = <<>>
     THEN ValidationResult(FALSE, <<>>)
     ELSE IF ~(Len(parsed[2]) = 1 /\ parsed[2][1] \in SAFE_KEYS)
     THEN ValidationResult(FALSE, <<>>)
     ELSE ValidationResult(TRUE, <<parsed[1], " ">> \o parsed[2])

\* ActionValidator._parse_mouse_action, "none" for None
ParseMouseAction(action) ==
  IF Contains(action, {"double"}) /\ Contains(action, {"click"}) THEN "double_click"
  ELSE IF Contains(action, {"right"}) /\ Contains(action, {"click"}) THEN "right_click"
  ELSE IF Contains(action, {"left"}) /\ Contains(action, {"click"}) THEN "left_click"
  ELSE IF Contains(action, {"click"}) THEN "click"
  ELSE IF Contains(action, {"move"}) THEN "move"
  ELSE "none"

\* ActionValidator.validate_mouse_action
ValidateMouseAction(action) ==
  LET action_lower == Strip(LowerText(action))
      action_type == ParseMouseAction(action_lower)
  IN IF action_type = "none" \/ action_type \notin SAFE_MOUSE_ACTIONS
     THEN ValidationResult(FALSE, <<>>)
     ELSE ValidationResult(TRUE, action_lower)

\* ActionValidator.validate_action
ValidatorValidateAction(action) ==
  LET action_lower == Strip(LowerText(action))
  IN IF Contains(action_lower, KeyboardKeywords) THEN ValidateKeyboardAction(action)
     ELSE IF Contains(action_lower, MouseKeywords) THEN ValidateMouseAction(action)
     ELSE ValidationResult(FALSE, <<>>)

\* InputController.execute_action up to the call of the executor: "keyboard"
\* for _execute_keyboard, "mouse" for _execute_mouse, "none" when the action
\* is dropped (disabled never happens before a failsafe; limited: the
\* validator's rate limit is reached)
ExecuteAction(action, limited) ==
  LET validation == ValidatorValidateAction(action)
      action_lower == LowerText(validation.sanitized_action)
  IN IF limited \/ ~validation.is_valid THEN "none"
     ELSE IF Contains(action_lower, KeyboardKeywords) THEN "keyboard"
     ELSE IF Contains(action_lower, MouseKeywords) THEN "mouse"
     ELSE "none"

\* the symbols of the contents of control-input actions
ActionSymbols == {"press", "Click", "move", " ", "w", "Shutdown", "Restart", "taskkill"}

ActionContents == UNION {[1..n -> ActionSymbols] : n \in 0..MaxActionLen}

\* a speech of n characters that ends with tail
LongText(n, tail) ==
  [i \in 1..n |-> IF i > n - Len(tail) THEN tail[i - (n - Len(tail))] ELSE "a"]

\* speeches whose length is near the character cap
LongSpeeches ==
  {LongText(n, tail) : n \in (SpeakCap - MaxOver)..(SpeakCap + MaxOver),
                       tail \in [1..2 -> {"a", "."}]}

\* the actions given to validate_action
ValidatedInputs ==
  {ParsedResponse(AT_ACTION, c, 10) : c \in ActionContents}
    \cup {ParsedResponse(AT_SPEAK, c, 10) : c \in LongSpeeches}
    \cup {ParsedResponse(t, c, 10) : t \in {AT_EMOTION, AT_THINK, AT_UNKNOWN, AT_SPEAK},
                                      c \in {<<"HAPPY">>, <<"ecstatic">>, <<"hello", "!">>}}

InitValidate ==
  /\ vpc = "input"
  /\ vaction \in ValidatedInputs
  /\ vverdicts = <<>>
  /\ vcontents = <<>>
  /\ vexecuted = "none"

\* one call of ResponseParser.validate_action(parsed) on the same object
ValidateCall ==
  /\ vverdicts' = Append(vverdicts, ValidateAction(vaction))
  /\ vcontents' = Append(vcontents, ValidatedContent(vaction))
  /\ vaction' = [vaction EXCEPT !.content = ValidatedContent(vaction)]
  /\ UNCHANGED vexecuted

ValidateOnce == vpc = "input" /\ vpc' = "once" /\ ValidateCall

ValidateAgain == vpc = "once" /\ vpc' = "twice" /\ ValidateCall

\* _execute_ai_action on a validated ACTION: _execute_game_action calls
\* input_controller.execute_action(action.content)
ExecuteGameAction(limited) ==
  /\ vpc \in {"once", "twice"}
  /\ vverdicts[1]
  /\ vaction.action_type = AT_ACTION
  /\ vpc' = "executed"
  /\ vexecuted' = ExecuteAction(vaction.content, limited)
  /\ UNCHANGED <<vaction, vverdicts, vcontents>>

(***************************************************************************)
(* ai/claude_brain.py: ClaudeBrain.  One task (the tick loop) makes the    *)
(* decision requests; it is caller 1 of the rate limiter.                  *)
(***************************************************************************)
None == ParsedResponse("None", <<>>, 0)

(***************************************************************************)
(* ResponseParser called on its own: parse, then validate_action, on a     *)
(* text of at most MaxTextLen symbols.                                     *)
(***************************************************************************)
\* the symbols of the texts
TextSymbols ==
  {"SPEAK:", "[SPEAK]", "EMOTION:", "[EMOTION]", "ACTION:", "THINK:", " ", "hello", "!",
   "HAPPY", "ecstatic", "press", "Shutdown"}

Texts == UNION {[1..n -> TextSymbols] : n \in 0..MaxTextLen}

InitParser ==
  /\ ppc = "input"
  /\ praw \in Texts
  /\ pparsed = None
  /\ pvalid = FALSE

\* parsed = self.response_parser.parse(response_text)
ParseStep ==
  /\ ppc = "input"
  /\ ppc' = "parsed"
  /\ pparsed' = Parse(praw)
  /\ UNCHANGED <<praw, pvalid>>

\* self.response_parser.validate_action(parsed)
ValidateStep ==
  /\ ppc = "parsed"
  /\ ppc' = "validated"
  /\ pvalid' = ValidateAction(pparsed)
  /\ pparsed' = [pparsed EXCEPT !.content = ValidatedContent(pparsed)]
  /\ UNCHANGED praw


\* the entry points that wrap _call_claude
EntryPoints == {"decide", "respond_to_chat", "decide_game_action", "idle_behavior"}

\* the entry points whose result an Orchestrator handler passes to _execute_ai_action
DispatchedEntryPoints == {"decide", "respond_to_chat", "idle_behavior"}

\* stop_after_attempt(3)
MaxAttempts == 3

\* tenacity that stops one attempt late
StopAfterAttemptLate(n) == n > MaxAttempts

\* tenacity's stop condition after attempt n failed
StopAfterAttempt(n) == n >= MaxAttempts

\* a retry that skips the rate limiter
AcquiresBeforeCallFirstOnly(n) == n = 1

\* "await self.rate_limiter.acquire()" is the first statement of the retried
\* function, so every attempt runs it
AcquiresBeforeCall(n) == TRUE

\* the functions whose body is a "try: ... except Exception:" that logs and
\* goes on (src line of each "except" in the source map)
TryExceptOnlyRun == {"run"}

TryExceptNoGenerateSpeech ==
  {"decide", "respond_to_chat", "decide_game_action", "idle_behavior",
   "_main_loop_iteration", "_process_event", "_execute_ai_action", "run"}

TryExcept ==
  {"decide", "respond_to_chat", "decide_game_action", "idle_behavior",
   "_main_loop_iteration", "_process_event", "_execute_ai_action", "run",
   "generate_speech"}

\* the function that catches an exception raised under the call chain
\* (innermost first), or "" when it leaves the outermost function
RECURSIVE CaughtBy(_)
CaughtBy(chain) ==
  IF chain = <<>> THEN ""
  ELSE IF Head(chain) \in TryExcept THEN Head(chain)
  ELSE CaughtBy(Tail(chain))

\* an exception inside entry point e is not raised to its caller
EntryCatches(e) == CaughtBy(<<e>>) = e

NewRequest == [calls |-> 0, succeeded |-> FALSE, raised |-> FALSE, parsed |-> None]

\* ClaudeBrain.__init__
InitBrain ==
  /\ bpc = "idle"
  /\ entry = "decide"
  /\ attempt = 0
  /\ result = None
  /\ handed = None
  /\ total_requests = 0
  /\ failed_requests = 0
  /\ nrequests = 0
  /\ ncalls = 0
  /\ nacquired = 0
  /\ req = NewRequest

\* what an entry point returns for a parsed response: parse, (for
\* decide_game_action) the action-type filter, validate_action
EntryResult(e, parsed) ==
  IF e = "decide_game_action" /\ parsed.action_type \notin {AT_ACTION, AT_SPEAK, AT_EMOTION}
  THEN None
  ELSE IF ValidateAction(parsed)
       THEN [parsed EXCEPT !.content = ValidatedContent(parsed)]
       ELSE None

\* the caller of caller 1's acquire() goes on: the backend call is submitted
\* to the executor (admitted), or the task stays in acquire()
AfterAcquire(admitted, r) ==
  /\ bpc' = IF admitted THEN "api" ELSE "acquire"
  /\ ncalls' = IF admitted THEN ncalls + 1 ELSE ncalls
  /\ req' = IF admitted THEN [r EXCEPT !.calls = @ + 1] ELSE r

\* attempt n of _call_claude starts, in the request with history r
StartAttempt(n, r) ==
  LET reqs == Evict(requests, rclock)
      hist == [IdleCaller EXCEPT !.called = rclock,
                                 !.at_limit = (Len(reqs) >= max_rpm),
                                 !.oldest = IF reqs # <<>> THEN reqs[1] ELSE 0]
      admitted == ~MustWait(reqs, rclock)
  IN /\ attempt' = n
     /\ IF AcquiresBeforeCall(n)
        THEN /\ nacquires' = nacquires + 1
             /\ AcquireBody(1, hist)
             /\ nacquired' = IF admitted THEN nacquired + 1 ELSE nacquired
             /\ AfterAcquire(admitted, r)
        ELSE /\ UNCHANGED <<nacquires, requests, acq, acquired, nacquired>>
             /\ AfterAcquire(TRUE, r)
     /\ UNCHANGED <<max_rpm, rclock, rticks, callers, remaining>>

\* an entry point is called
BrainCall(e) ==
  /\ bpc = "idle"
  /\ nrequests < MaxRequests
  /\ nrequests' = nrequests + 1
  /\ entry' = e
  /\ result' = None
  /\ handed' = None
  /\ StartAttempt(1, NewRequest)
  /\ UNCHANGED <<total_requests, failed_requests>>

\* the sleep inside rate_limiter.acquire() ends and acquire() runs again
BrainAcquireWake ==
  LET admitted == ~MustWait(Evict(requests, rclock), rclock)
  IN /\ bpc = "acquire"
     /\ acq[1].pc = "sleeping"
     /\ rclock >= acq[1].wake
     /\ AcquireBody(1, [acq[1] EXCEPT !.late = @ + (rclock - acq[1].wake)])
     /\ nacquired' = IF admitted THEN nacquired + 1 ELSE nacquired
     /\ AfterAcquire(admitted, req)
     /\ UNCHANGED <<max_rpm, rclock, rticks, callers, nacquires, remaining,
                    entry, attempt, result, handed, total_requests, failed_requests,
                    nrequests>>

\* the backend call returns a response: _call_claude returns it, the entry
\* point parses and validates it, and the caller dispatches a result
ApiSucceeds(response) ==
  LET ret == EntryResult(entry, Parse(response))
  IN /\ bpc = "api"
     /\ bpc' = "idle"
     /\ total_requests' = total_requests + 1
     /\ result' = ret
     /\ handed' = IF ret # None /\ entry \in DispatchedEntryPoints THEN ret ELSE None
     /\ req' = [req EXCEPT !.succeeded = TRUE, !.parsed = Parse(response)]
     /\ UNCHANGED <<rvars, entry, attempt, failed_requests, nrequests, ncalls, nacquired>>

\* the backend call raises (counted is anthropic.APIError): tenacity sleeps
\* before the next attempt, or raises RetryError into the entry point
ApiFails(counted) ==
  /\ bpc = "api"
  /\ failed_requests' = IF counted THEN failed_requests + 1 ELSE failed_requests
  /\ IF StopAfterAttempt(attempt)
     THEN /\ bpc' = "idle"
          /\ result' = None
          /\ req' = [req EXCEPT !.raised = ~EntryCatches(entry)]
     ELSE /\ bpc' = "backoff"
          /\ UNCHANGED <<result, req>>
  /\ UNCHANGED <<rvars, entry, attempt, handed, total_requests, nrequests, ncalls,
                 nacquired>>

\* tenacity's wait_exponential sleep ends: the next attempt starts
BackoffEnds ==
  /\ bpc = "backoff"
  /\ StartAttempt(attempt + 1, req)
  /\ UNCHANGED <<entry, result, handed, total_requests, failed_requests, nrequests>>

(***************************************************************************)
(* core/orchestrator.py: Orchestrator.run and the tick loop, with          *)
(* output/tts_manager.py: TTSManager.  Code between two suspending awaits  *)
(* is one step.  A task that was made ready (the playback worker woken by  *)
(* audio_queue.put) runs before a task that resumes from a later timer or  *)
(* network wait.                                                           *)
(***************************************************************************)
\* the attributes of class EventType (core/event_queue.py)
EventTypeNames ==
  {"CHAT_MESSAGE", "CHAT_COMMAND", "GAME_STATE_CHANGE", "GAME_ACTION_COMPLETE",
   "GAME_START", "GAME_END", "SYSTEM_ERROR", "SYSTEM_SHUTDOWN", "SYSTEM_STARTUP",
   "TTS_COMPLETE", "EXPRESSION_CHANGE", "IDLE_ACTION", "AUTONOMOUS_DECISION"}

NoSpeak == [id |-> 0, outcome |-> "none", ended |-> FALSE]

\* class SystemState (core/state_manager.py)
INITIALIZING == "initializing"
IDLE == "idle"
CHATTING == "chatting"
GAMING == "gaming"
RESPONDING == "responding"
ERROR == "error"
SHUTTING_DOWN == "shutting_down"

\* StateManager.is_busy
IsBusy == system_state \in {INITIALIZING, SHUTTING_DOWN, ERROR} \/ sm_is_speaking

\* the last statement of _execute_speak: "self.state_manager.is_speaking = False"
SpeakEndFlagStuck == TRUE

SpeakEndFlag == FALSE

\* Orchestrator.tasks after initialize()
Tasks == {"tts_task", "chat_task"}

\* StateManager.__init__: INITIALIZING; nothing is cancelled, no decision was
\* requested
InitShutdown ==
  /\ system_state = INITIALIZING
  /\ cancelled = {}
  /\ inflight = 0
  /\ handled = "none"

\* "await self._idle_behavior()": the tick waits for the decision
IdleBehaviorSpawned == FALSE

IdleBehaviorAwaited == TRUE

NoException == [tick |-> 0, site |-> "none", handler |-> ""]

\* Orchestrator.__init__, TTSManager.__init__; the playback worker is the
\* task initialize() starts
InitOrch ==
  /\ running = FALSE
  /\ opc = "new"
  /\ ctx = "startup"
  /\ sm_is_speaking = FALSE
  /\ tts_is_speaking = FALSE
  /\ audio_queue = <<>>
  /\ wpc = "waiting"
  /\ playing = 0
  /\ finished = {}
  /\ authenticated \in BOOLEAN
  /\ anim = "none"
  /\ nspeaks = 0
  /\ nticks = 0
  /\ speak = NoSpeak
  /\ exc = NoException

\* the playback worker was woken by audio_queue.put and has not run yet
WorkerReady == wpc = "waiting" /\ audio_queue # <<>>

\* the functions on the stack of the task, innermost first
CallChain == IF ctx = "tick" THEN <<"_main_loop_iteration", "run">> ELSE <<>>

\* the task goes on after the function named by handler caught an exception
\* ("" when none did), or after the call returned (handler = "return"); in
\* shutdown() the farewell is followed by audio_monitor.stop(),
\* chat_monitor.stop() and the await inside vtube.disconnect()
Continue(handler) ==
  IF handler = "run"
  THEN opc' = "stopped" /\ UNCHANGED <<running, ctx>>
  ELSE IF handler = ""
  THEN opc' = (IF ctx = "shutdown" THEN "aborted" ELSE "crashed") /\ UNCHANGED <<running, ctx>>
  ELSE IF ctx = "shutdown"
  THEN opc' = "disconnect" /\ UNCHANGED <<running, ctx>>
  ELSE opc' = "sleep" /\ ctx' = "tick" /\ UNCHANGED running

\* an exception raised at site in a tick is recorded with what caught it
Raised(site, handler) ==
  IF ctx = "tick" THEN [tick |-> nticks, site |-> site, handler |-> handler] ELSE exc

\* _execute_speak up to the await inside tts.speak: the flag is set and
\* generate_speech calls the synthesis service
ExecuteSpeakBegin ==
  /\ nspeaks < MaxSpeaks
  /\ nspeaks' = nspeaks + 1
  /\ sm_is_speaking' = TRUE
  /\ speak' = [id |-> nspeaks + 1, outcome |-> "none", ended |-> FALSE]
  /\ opc' = "synth"

\* _execute_speak returns: after "self.state_manager.is_speaking = False" in
\* the startup greeting comes _execute_emotion("happy"), which calls
\* vtube.set_emotion when authenticated; in a tick the tick ends
SpeakReturns ==
  IF ctx = "startup" /\ authenticated
  THEN opc' = "effector" /\ UNCHANGED <<running, ctx>>
  ELSE Continue("return")

\* the state run() sets before the greeting
RunSystemStateInitializing == INITIALIZING

RunSystemState == IDLE

\* Orchestrator.initialize, called by main(): when it succeeds (ok) it ends
\* with update_system_state(SystemState.IDLE) and main() goes on to run();
\* when it fails main() exits
Initialize(ok) ==
  /\ opc = "new"
  /\ opc' = IF ok THEN "init" ELSE "failed"
  /\ system_state' = IF ok THEN IDLE ELSE system_state
  /\ UNCHANGED <<cancelled, inflight, handled, running, ctx, sm_is_speaking, tts_is_speaking,
                 audio_queue, wpc, playing, finished, authenticated, anim, nspeaks, nticks,
                 speak, exc>>

\* Orchestrator.run up to the first await of _startup_greeting
RunStart ==
  /\ opc = "init"
  /\ running' = TRUE
  /\ system_state' = RunSystemState
  /\ ExecuteSpeakBegin
  /\ UNCHANGED <<cancelled, inflight, handled>>
  /\ UNCHANGED <<ctx, tts_is_speaking, audio_queue, wpc, playing, finished, authenticated,
                 anim, nticks, exc>>

\* generate_speech ends (outcome "audio", "empty": no audio data, "raise":
\* the synthesis service raised); tts.speak queues the audio or returns
\* False; _execute_speak starts the animation task and tests tts.is_speaking
SynthReturns(outcome) ==
  LET handler == IF outcome = "raise"
                 THEN CaughtBy(<<"generate_speech">> \o
                               (IF ctx = "tick" THEN <<"_execute_ai_action">> ELSE <<>>) \o
                               CallChain)
                 ELSE "return"
  IN /\ opc = "synth"
     /\ ~WorkerReady
     /\ exc' = IF outcome = "raise" THEN Raised("synthesis", handler) ELSE exc
     /\ IF handler \in {"return", "generate_speech"}
        THEN /\ audio_queue' = IF outcome = "audio" THEN Append(audio_queue, speak.id)
                               ELSE audio_queue
             /\ anim' = IF authenticated THEN "running" ELSE anim
             /\ IF tts_is_speaking
                THEN /\ opc' = "wait"
                     /\ speak' = [speak EXCEPT !.outcome = outcome]
                     /\ UNCHANGED <<sm_is_speaking, running, ctx>>
                ELSE /\ sm_is_speaking' = SpeakEndFlag
                     /\ speak' = [speak EXCEPT !.outcome = outcome, !.ended = TRUE]
                     /\ SpeakReturns
        ELSE /\ speak' = [speak EXCEPT !.outcome = outcome, !.ended = TRUE]
             /\ Continue(handler)
             /\ UNCHANGED <<audio_queue, anim, sm_is_speaking>>
     /\ UNCHANGED <<tts_is_speaking, wpc, playing, finished, authenticated, nspeaks, nticks>>

\* "while self.tts.is_speaking: await asyncio.sleep(0.1)" finds the flag
\* cleared; "self.state_manager.is_speaking = False"
SpeakPoll ==
  /\ opc = "wait"
  /\ ~WorkerReady
  /\ ~tts_is_speaking
  /\ sm_is_speaking' = SpeakEndFlag
  /\ speak' = [speak EXCEPT !.ended = TRUE]
  /\ SpeakReturns
  /\ UNCHANGED <<tts_is_speaking, audio_queue, wpc, playing, finished, authenticated, anim,
                 nspeaks, nticks, exc>>

\* a worker that takes the newest queued audio first
WorkerLoopNewestFirst(done, nfail) ==
  /\ nfail <= Len(audio_queue)
  /\ finished' = done \cup {audio_queue[Len(audio_queue) + 1 - i] : i \in 1..nfail}
  /\ IF nfail < Len(audio_queue)
     THEN /\ playing' = audio_queue[Len(audio_queue) - nfail]
          /\ audio_queue' = SubSeq(audio_queue, 1, Len(audio_queue) - nfail - 1)
          /\ tts_is_speaking' = TRUE
          /\ wpc' = "playing"
     ELSE /\ playing' = 0
          /\ audio_queue' = <<>>
          /\ tts_is_speaking' = FALSE
          /\ wpc' = "waiting"
  /\ UNCHANGED <<running, opc, ctx, sm_is_speaking, authenticated, anim, nspeaks, nticks,
                 speak, exc>>

\* the playback worker's loop from audio_queue.get(), done being the audio it
\* is done with: the first nfail queued items fail in load/play ("except",
\* "finally: self.is_speaking = False", next get() without suspending), the
\* one after them starts playing, or the worker suspends on the empty queue
WorkerLoop(done, nfail) ==
  /\ nfail <= Len(audio_queue)
  /\ finished' = done \cup {audio_queue[i] : i \in 1..nfail}
  /\ IF nfail < Len(audio_queue)
     THEN /\ playing' = audio_queue[nfail + 1]
          /\ audio_queue' = SubSeq(audio_queue, nfail + 2, Len(audio_queue))
          /\ tts_is_speaking' = TRUE
          /\ wpc' = "playing"
     ELSE /\ playing' = 0
          /\ audio_queue' = <<>>
          /\ tts_is_speaking' = FALSE
          /\ wpc' = "waiting"
  /\ UNCHANGED <<running, opc, ctx, sm_is_speaking, authenticated, anim, nspeaks, nticks,
                 speak, exc>>

\* the worker, woken by a put, takes audio from the queue
WorkerTake(nfail) ==
  /\ WorkerReady
  /\ WorkerLoop(finished, nfail)

\* pygame.mixer.music.get_busy() turns false: playback of the audio is over
PlaybackDone(nfail) ==
  /\ wpc = "playing"
  /\ WorkerLoop(finished \cup {playing}, nfail)

\* TTSManager.speak(text) called by any task, from the return of
\* generate_speech: the audio is queued for playback, or, when no audio was
\* made (outcome "empty"), speak returns False
TtsSpeak(outcome) ==
  /\ nspeaks < MaxUtterances
  /\ nspeaks' = nspeaks + 1
  /\ audio_queue' = IF outcome = "audio" THEN Append(audio_queue, nspeaks + 1) ELSE audio_queue
  /\ UNCHANGED <<running, opc, ctx, sm_is_speaking, tts_is_speaking, wpc, playing, finished,
                 authenticated, anim, nticks, speak, exc>>

\* the animate_speaking task ends, by an exception of the rendering link or not
AnimationEnds(raised) ==
  /\ anim = "running"
  /\ anim' = IF raised THEN "raised" ELSE "none"
  /\ UNCHANGED <<running, opc, ctx, sm_is_speaking, tts_is_speaking, audio_queue, wpc,
                 playing, finished, authenticated, nspeaks, nticks, speak, exc>>

\* _process_event: the first comparison reads EventType.STREAMER_SPEECH
ProcessEventRaises == "STREAMER_SPEECH" \notin EventTypeNames

\* a tick that runs the idle behaviour whether or not it dequeued an event
IdleBranchAlways(event) == TRUE

\* "if event: ... else:": the idle branch of _main_loop_iteration is taken
\* when get_nowait returned no event (event: there was one)
IdleBranch(event) == ~event

\* the handler the if/elif chain of _process_event calls for an event type
HandlerOf(event_type) ==
  CASE event_type = "streamer_speech" -> "_handle_streamer_speech"
    [] event_type = CHAT_MESSAGE -> "_handle_chat_event"
    [] event_type = GAME_STATE_CHANGE -> "_handle_game_state_change"
    [] event_type = AUTONOMOUS_DECISION -> "_make_autonomous_decision"
    [] OTHER -> "none"

\* one call of _main_loop_iteration up to its first suspending await: with an
\* event, _process_event; without, _idle_behavior when random() < 0.15
\* (trigger) and the system state is IDLE; then _periodic_tasks
TickStart(trigger) ==
  LET handler == CaughtBy(<<"_process_event">> \o CallChain)
      decide == trigger /\ system_state = IDLE
  IN /\ opc = "sleep"
     /\ running
     /\ ~WorkerReady
     /\ nticks < MaxLoopTicks
     /\ nticks' = nticks + 1
     /\ get_nowait
     /\ IF heap # <<>>
        THEN IF ProcessEventRaises
             THEN /\ exc' = [tick |-> nticks + 1, site |-> "event", handler |-> handler]
                  /\ Continue(handler)
             ELSE /\ Continue("return")
                  /\ UNCHANGED exc
        ELSE /\ opc' = IF decide /\ IdleBehaviorAwaited THEN "decide" ELSE "sleep"
             /\ UNCHANGED <<running, ctx, exc>>
     /\ inflight' = IF IdleBranch(heap # <<>>) /\ decide THEN inflight + 1 ELSE inflight
     /\ handled' = IF heap # <<>> /\ ~ProcessEventRaises
                    THEN HandlerOf(HeapPopItem(heap).event_type) ELSE "none"
     /\ UNCHANGED <<system_state, cancelled>>
     /\ UNCHANGED <<sm_is_speaking, tts_is_speaking, audio_queue, wpc, playing, finished,
                    authenticated, anim, nspeaks, speak>>

\* brain.idle_behavior returns for the backend's response; "if decision:"
\* hands it to _execute_ai_action, which runs up to the effector's await
DecisionReturns(response) ==
  LET decision == EntryResult("idle_behavior", Parse(response))
  IN /\ opc = "decide"
     /\ ~WorkerReady
     /\ inflight' = inflight - 1
     /\ UNCHANGED <<system_state, cancelled, handled>>
     /\ IF decision # None /\ decision.action_type = AT_SPEAK
        THEN /\ ExecuteSpeakBegin
             /\ UNCHANGED <<running, ctx>>
        ELSE /\ IF /\ decision # None
                   /\ \/ decision.action_type = AT_EMOTION /\ authenticated
                      \/ decision.action_type = AT_ACTION
                THEN opc' = "effector" /\ UNCHANGED <<running, ctx>>
                ELSE Continue("return")
             /\ UNCHANGED <<sm_is_speaking, nspeaks, speak>>
     /\ UNCHANGED <<tts_is_speaking, audio_queue, wpc, playing, finished, authenticated,
                    anim, nticks, exc>>

\* the decision request fails (the backend failed 3 times, or the prompt
\* could not be built)
DecisionFails ==
  LET handler == CaughtBy(<<"idle_behavior">> \o CallChain)
  IN /\ opc = "decide"
     /\ ~WorkerReady
     /\ inflight' = inflight - 1
     /\ UNCHANGED <<system_state, cancelled, handled>>
     /\ exc' = Raised("decision", handler)
     /\ Continue(handler)
     /\ UNCHANGED <<sm_is_speaking, tts_is_speaking, audio_queue, wpc, playing, finished,
                    authenticated, anim, nspeaks, nticks, speak>>

\* vtube.set_emotion or input_controller.execute_action returns or raises
EffectorReturns(raised) ==
  LET handler == IF raised
                 THEN CaughtBy((IF ctx = "tick" THEN <<"_execute_ai_action">> ELSE <<>>) \o
                               CallChain)
                 ELSE "return"
  IN /\ opc = "effector"
     /\ ~WorkerReady
     /\ exc' = IF raised THEN Raised("effector", handler) ELSE exc
     /\ Continue(handler)
     /\ UNCHANGED <<sm_is_speaking, tts_is_speaking, audio_queue, wpc, playing, finished,
                    authenticated, anim, nspeaks, nticks, speak>>

(***************************************************************************)
(* core/orchestrator.py: _execute_emotion, with EmotionalState of          *)
(* core/state_manager.py and ExpressionMapper of                           *)
(* output/expression_mapper.py.                                            *)
(***************************************************************************)
\* the values of enum EmotionalState
EmotionalStates == {"neutral", "happy", "excited", "focused", "sad", "surprised", "thinking"}

\* the values of enum Emotion of the expression mapper; DEFAULT_MAPPINGS has
\* an entry for each
MappedEmotions == {"neutral", "happy", "sad", "excited", "focused", "surprised", "thinking",
                   "confused", "angry"}

\* hotkey_name of the entry of DEFAULT_MAPPINGS
HotkeyName(e) ==
  CASE e = "neutral" -> "Neutral"
    [] e = "happy" -> "Happy"
    [] e = "sad" -> "Sad"
    [] e = "excited" -> "Excited"
    [] e = "focused" -> "Focused"
    [] e = "surprised" -> "Surprised"
    [] e = "thinking" -> "Thinking"
    [] e = "confused" -> "Confused"
    [] e = "angry" -> "Angry"

\* ExpressionMapper.get_expression: Emotion(emotion.lower()) raises ValueError
\* for a name that is no member, and the neutral mapping is returned
GetExpression(e) ==
  IF Lower(e) \in MappedEmotions THEN HotkeyName(Lower(e)) ELSE HotkeyName("neutral")

\* "emotion_state = EmotionalState(emotion.lower());
\* update_emotional_state(emotion_state)" inside try/except ValueError
UpdatedEmotionalState(old, e) == IF Lower(e) \in EmotionalStates THEN Lower(e) ELSE old

InitEmotion ==
  /\ emotional_state = "neutral"
  /\ hotkey = "none"
  /\ emotion = "none"
  /\ nemotions = 0

\* _execute_emotion(e): the state manager is updated, then, when the avatar
\* link is authenticated, set_emotion triggers the hotkey of the expression
ExecuteEmotion(e, is_authenticated) ==
  /\ nemotions < MaxEmotions
  /\ nemotions' = nemotions + 1
  /\ emotion' = e
  /\ emotional_state' = UpdatedEmotionalState(emotional_state, e)
  /\ hotkey' = IF is_authenticated THEN GetExpression(e) ELSE hotkey

(***************************************************************************)
(* control/input_controller.py and the rate limit of                       *)
(* control/action_validator.py, called by Orchestrator._execute_game_action *)
(* of the tick loop; ActionHistory of core/state_manager.py.               *)
(***************************************************************************)
\* ActionHistory.max_history
MaxHistory == 50

\* an add_action that keeps the first max_history entries
AddActionKeepsOldest(history, action_type, details, outcome) ==
  LET appended == Append(history, [type |-> action_type, details |-> details,
                                   outcome |-> outcome])
  IN IF Len(appended) > MaxHistory THEN SubSeq(appended, 1, MaxHistory) ELSE appended

\* ActionHistory.add_action: append, then keep the last max_history entries
AddAction(history, action_type, details, outcome) ==
  LET appended == Append(history, [type |-> action_type, details |-> details,
                                   outcome |-> outcome])
  IN IF Len(appended) > MaxHistory
     THEN SubSeq(appended, Len(appended) - MaxHistory + 1, Len(appended))
     ELSE appended

\* is_rate_limited at time now: the counter after "Reset counter every second"
CountAfterReset(now) ==
  IF now - last_reset_time >= InputTicksPerSecond THEN 0 ELSE action_count

ResetTimeAfterReset(now) ==
  IF now - last_reset_time >= InputTicksPerSecond THEN now ELSE last_reset_time

IsRateLimited(now) == CountAfterReset(now) >= max_actions_per_second

\* the validator is made with last_reset_time = 0 and the wall clock is far
\* from the epoch: the first check resets the counter
InitInput ==
  /\ max_actions_per_second \in 1..MaxInputRate
  /\ action_count = 0
  /\ last_reset_time = 0 - InputTicksPerSecond
  /\ iclock = 0
  /\ actions = <<>>
  /\ executed = <<>>

\* _execute_game_action(action): the action is recorded in the history with
\* no outcome, then execute_action checks the rate limit, validates, calls
\* the executor, and counts the action when the executor succeeded
DispatchGameAction(action, success) ==
  LET limited == IsRateLimited(iclock)
      target == ExecuteAction(action, limited)
  IN /\ Len(executed) < MaxGameActions
     /\ Len(actions) < MaxGameActions
     /\ actions' = AddAction(actions, "game_input", action, "None")
     /\ last_reset_time' = ResetTimeAfterReset(iclock)
     /\ action_count' = IF target # "none" /\ success
                        THEN CountAfterReset(iclock) + 1 ELSE CountAfterReset(iclock)
     /\ executed' = IF target # "none"
                    THEN Append(executed, [time |-> iclock, action |-> action,
                                           success |-> success])
                    ELSE executed
     /\ UNCHANGED <<max_actions_per_second, iclock>>

\* time goes on between two ticks of the loop
InputClockAdvance ==
  /\ iclock < MaxInputClock
  /\ iclock' = iclock + 1
  /\ UNCHANGED <<max_actions_per_second, action_count, last_reset_time, actions, executed>>

\* the game actions that are dispatched: a key press, a mouse click, and a
\* key press the validator rejects
GameActions == {<<"press", " ", "w">>, <<"Click">>, <<"press", " ", "Shutdown">>}

(***************************************************************************)
(* core/state_manager.py: the rolling lists.  An entry is identified by    *)
(* its arrival number.                                                     *)
(***************************************************************************)
\* "if len(self.recent_messages) > 20"
ContextCap == 20

\* "if len(self.game_state.recent_outcomes) > 10"
OutcomesCap == 10

\* "self.actions = self.actions[-self.max_history:]" and its likes
LastN(list, n) == IF Len(list) > n THEN SubSeq(list, Len(list) - n + 1, Len(list)) ELSE list

InitLists ==
  /\ recent_messages = <<>>
  /\ active_users = {}
  /\ recent_outcomes = <<>>
  /\ achievements = <<>>
  /\ added = [messages |-> 0, actions |-> 0, outcomes |-> 0, achievements |-> 0]

\* ChatContext.add_message(author, text)
add_message(author) ==
  /\ added.messages < MaxMessages
  /\ added' = [added EXCEPT !.messages = @ + 1]
  /\ recent_messages' =
       LastN(Append(recent_messages, [author |-> author, text |-> added.messages + 1]),
             ContextCap)
  /\ active_users' = active_users \cup {author}
  /\ UNCHANGED <<recent_outcomes, achievements>>

\* ActionHistory.add_action(action_type, details)
add_action(action_type) ==
  /\ added.actions < MaxActionsAdded
  /\ added' = [added EXCEPT !.actions = @ + 1]
  /\ actions' = AddAction(actions, action_type, added.actions + 1, "None")
  /\ UNCHANGED <<recent_messages, active_users, recent_outcomes, achievements>>

\* StateManager.add_game_outcome(outcome)
add_game_outcome ==
  /\ added.outcomes < MaxOutcomes
  /\ added' = [added EXCEPT !.outcomes = @ + 1]
  /\ recent_outcomes' = LastN(Append(recent_outcomes, added.outcomes + 1), OutcomesCap)
  /\ UNCHANGED <<recent_messages, active_users, achievements>>

\* StateManager.add_achievement(achievement)
add_achievement ==
  /\ added.achievements < MaxAchievements
  /\ added' = [added EXCEPT !.achievements = @ + 1]
  /\ achievements' = Append(achievements, added.achievements + 1)
  /\ UNCHANGED <<recent_messages, active_users, recent_outcomes>>

(***************************************************************************)
(* core/orchestrator.py: the producers.  The chat monitor loop is one task *)
(* that awaits the chat callback for each message; the audio monitor       *)
(* starts a task of the voice callback for each utterance.                 *)
(***************************************************************************)
\* the priorities ChatParser._calculate_priority returns
ChatPriorities == {CRITICAL, HIGH, MEDIUM}

\* class EventType has the attribute
HasEventType(name) == name \in EventTypeNames

\* the transcriptions of the speech-to-text service
Transcriptions == {<<>>, <<" ">>, <<"hello">>}

InitProducers ==
  /\ putters = <<>>
  /\ chat_context = 0
  /\ offered_full = 0
  /\ nspeech = 0
  /\ speech_heard = 0
  /\ speech_enqueued = 0
  /\ nproduced = 0

\* _handle_chat_message up to the end or to the suspension inside
\* event_queue.put: parse, chat_context.add_message, put
HandleChatMessage(priority, now) ==
  /\ putters = <<>>
  /\ chat_context' = IF chat_context + 1 > ContextCap THEN ContextCap ELSE chat_context + 1
  /\ put(CHAT_MESSAGE, priority, now)
  /\ nproduced' = nproduced + 1
  /\ UNCHANGED <<nspeech, speech_heard, speech_enqueued>>

\* _on_streamer_speech from the return of stt.transcribe: a non-empty text
\* is enqueued as EventType.STREAMER_SPEECH with Priority.CRITICAL; reading
\* an attribute EventType has not raises AttributeError, which the
\* callback's "except Exception" logs
OnStreamerSpeech(text, now) ==
  /\ nspeech < MaxSpeech
  /\ nspeech' = nspeech + 1
  /\ nproduced' = nproduced + 1
  /\ IF Strip(text) # <<>>
     THEN /\ speech_heard' = speech_heard + 1
          /\ IF HasEventType("STREAMER_SPEECH")
             THEN /\ put("streamer_speech", CRITICAL, now)
                  /\ speech_enqueued' = speech_enqueued + 1
             ELSE UNCHANGED <<qvars, putters, offered_full, speech_enqueued>>
     ELSE UNCHANGED <<qvars, putters, offered_full, speech_heard, speech_enqueued>>
  /\ UNCHANGED chat_context


(***************************************************************************)
(* chat/chat_parser.py: the priority of a chat message.  A message is the  *)
(* dictionary of the chat monitor; is_command and mentions_bot stand for   *)
(* what parse_message finds in the text.                                   *)
(***************************************************************************)
ChatMessages ==
  [is_command : BOOLEAN, mentions_bot : BOOLEAN, is_member : BOOLEAN, is_moderator : BOOLEAN,
   is_owner : BOOLEAN]

\* ChatParser._calculate_priority; "is_question" is stored by parse_message
\* after the priority was calculated, and the monitor's dictionary has no
\* such key
CalculatePriority(parsed_message) ==
  IF parsed_message.is_command THEN HIGH
  ELSE IF parsed_message.mentions_bot THEN HIGH
  ELSE IF parsed_message.is_question THEN MEDIUM
  ELSE IF parsed_message.is_moderator \/ parsed_message.is_member THEN MEDIUM
  ELSE IF parsed_message.is_owner THEN CRITICAL
  ELSE MEDIUM

\* ChatParser.parse_message, as far as the priority is concerned
ParseMessage(message) ==
  LET parsed == [is_command |-> message.is_command, mentions_bot |-> message.mentions_bot,
                 is_member |-> message.is_member, is_moderator |-> message.is_moderator,
                 is_owner |-> message.is_owner, is_question |-> FALSE]
  IN [message |-> message, priority |-> CalculatePriority(parsed)]

NoChat == [message |-> "none", priority |-> -1]

InitChat == last_chat = NoChat

\* _handle_chat_message(message): parse_message, then add_message and put
\* with priority=parsed["priority"]
HandleParsedChatMessage(message, now) ==
  /\ last_chat' = ParseMessage(message)
  /\ HandleChatMessage(ParseMessage(message).priority, now)

(***************************************************************************)
(* output/vtube_controller.py: _send_request.  Two tasks use the socket:   *)
(* the task of Orchestrator.run ("loop": set_emotion from a tick, and what *)
(* shutdown() calls after the interrupt) and the speaking-animation task   *)
(* ("anim": set_parameter).  The renderer answers the requests in the      *)
(* order it received them.                                                 *)
(***************************************************************************)
SocketTasks == {"loop", "anim"}

NoExchange == [request |-> 0, response |-> 0]

InitSocket ==
  /\ ws_lock = "none"
  /\ ws_waiters = <<>>
  /\ ws_pc = [t \in SocketTasks |-> "idle"]
  /\ ws_request = [t \in SocketTasks |-> 0]
  /\ ws_unread = <<>>
  /\ ws_got = [t \in SocketTasks |-> NoExchange]
  /\ message_id = 0
  /\ ncancels = 0

\* "self._ws_lock" is released: the first waiter gets it and sends its request
ReleaseTo(waiters, pcs, unread) ==
  IF waiters = <<>>
  THEN /\ ws_lock' = "none"
       /\ ws_waiters' = <<>>
       /\ ws_pc' = pcs
       /\ ws_unread' = unread
  ELSE /\ ws_lock' = Head(waiters)
       /\ ws_waiters' = Tail(waiters)
       /\ ws_pc' = [pcs EXCEPT ![Head(waiters)] = "recv"]
       /\ ws_unread' = Append(unread, ws_request[Head(waiters)])

\* a caller builds a request (_get_next_message_id) and enters
\* _send_request: "async with self._ws_lock", then "await self.ws.send",
\* or the task is suspended until the lock is free
SendRequest(t) ==
  /\ ws_pc[t] = "idle"
  /\ message_id < MaxRequestsSent
  /\ message_id' = message_id + 1
  /\ ws_request' = [ws_request EXCEPT ![t] = message_id + 1]
  /\ IF ws_lock = "none"
     THEN /\ ws_lock' = t
          /\ ws_pc' = [ws_pc EXCEPT ![t] = "recv"]
          /\ ws_unread' = Append(ws_unread, message_id + 1)
          /\ UNCHANGED ws_waiters
     ELSE /\ ws_waiters' = Append(ws_waiters, t)
          /\ ws_pc' = [ws_pc EXCEPT ![t] = "lock"]
          /\ UNCHANGED <<ws_lock, ws_unread>>
  /\ UNCHANGED <<ws_got, ncancels>>

\* "response_text = await self.ws.recv()" returns the next unread response;
\* the lock is released and _send_request returns the response
ReceiveResponse(t) ==
  /\ ws_pc[t] = "recv"
  /\ ws_unread # <<>>
  /\ ws_got' = [ws_got EXCEPT ![t] = [request |-> ws_request[t], response |-> Head(ws_unread)]]
  /\ ReleaseTo(ws_waiters, [ws_pc EXCEPT ![t] = "idle"], Tail(ws_unread))
  /\ UNCHANGED <<ws_request, message_id, ncancels>>

\* the interrupt cancels the task of run() at the await it is suspended in:
\* CancelledError is no Exception, "async with" releases the lock, and the
\* task goes on into shutdown(); the response to a request that was sent
\* stays unread
CancelRequest(t) ==
  /\ ncancels < MaxCancels
  /\ ws_pc[t] \in {"lock", "recv"}
  /\ ncancels' = ncancels + 1
  /\ IF ws_pc[t] = "lock"
     THEN /\ ws_waiters' = SelectSeq(ws_waiters, LAMBDA u : u # t)
          /\ ws_pc' = [ws_pc EXCEPT ![t] = "idle"]
          /\ UNCHANGED <<ws_lock, ws_unread>>
     ELSE ReleaseTo(ws_waiters, [ws_pc EXCEPT ![t] = "idle"], ws_unread)
  /\ UNCHANGED <<ws_request, ws_got, message_id>>

(***************************************************************************)
(* core/orchestrator.py: the end of run() and shutdown().  Nothing in the  *)
(* loop sets running false, so the loop is left by an exception only: the  *)
(* cancellation (KeyboardInterrupt) delivered at the await the task is     *)
(* suspended in is no Exception, passes every "except Exception" and       *)
(* reaches "finally: await self.shutdown()".  _startup_greeting is outside *)
(* the try.                                                                *)
(***************************************************************************)
\* the task is suspended in an await
Suspended == opc \in {"sleep", "decide", "synth", "wait", "effector"}

\* the interrupt: from the loop, shutdown() up to the await inside the
\* farewell's tts.speak; from the greeting, run() ends without shutdown()
Interrupt ==
  /\ Suspended
  /\ ctx \in {"startup", "tick"}
  /\ IF ctx = "tick"
     THEN /\ system_state' = SHUTTING_DOWN
          /\ ctx' = "shutdown"
          /\ ExecuteSpeakBegin
     ELSE /\ opc' = "crashed"
          /\ UNCHANGED <<system_state, ctx, nspeaks, sm_is_speaking, speak>>
  /\ inflight' = 0
  /\ UNCHANGED <<cancelled, handled, running, tts_is_speaking, audio_queue, wpc, playing, finished,
                 authenticated, anim, nticks, exc>>

\* "await self.ws.close()" of vtube.disconnect returns or raises (there is a
\* socket when the controller is authenticated); nothing in shutdown() or
\* run() catches, so an exception ends shutdown()
DisconnectReturns(raised) ==
  /\ opc = "disconnect"
  /\ ~WorkerReady
  /\ raised => authenticated
  /\ opc' = IF raised THEN "aborted" ELSE "cleanup"
  /\ authenticated' = IF raised THEN authenticated ELSE FALSE
  /\ UNCHANGED <<svars, running, ctx, sm_is_speaking, tts_is_speaking, audio_queue, wpc,
                 playing, finished, anim, nspeaks, nticks, speak, exc>>

\* tts.cleanup (stop_speaking, pygame.mixer.quit, which may raise), then the
\* loop over self.tasks: each task is cancelled and awaited
CleanupReturns(raised) ==
  /\ opc = "cleanup"
  /\ tts_is_speaking' = FALSE
  /\ IF raised
     THEN /\ opc' = "aborted"
          /\ UNCHANGED <<cancelled, wpc, playing>>
     ELSE /\ opc' = "down"
          /\ cancelled' = Tasks
          /\ wpc' = "cancelled"
          /\ playing' = 0
  /\ UNCHANGED <<system_state, inflight, handled, running, ctx, sm_is_speaking, audio_queue,
                 finished,
                 authenticated, anim, nspeaks, nticks, speak, exc>>

\* run() has not ended: main() is still in "await orchestrator.run()"
Alive == opc \notin {"down", "aborted", "crashed", "stopped", "failed"}

\* event_queue.put(EventType.SYSTEM_SHUTDOWN, ...) by a caller of the queue,
\* while the process lives
PutShutdownEvent(now) ==
  /\ Alive
  /\ put(SYSTEM_SHUTDOWN, CRITICAL, now)
  /\ UNCHANGED <<chat_context, nspeech, speech_heard, speech_enqueued, nproduced>>

(***************************************************************************)
(* The specifications.  A component that a specification does not run is   *)
(* held in one constructed state.                                          *)
(***************************************************************************)
QueueIdle == InitQueue /\ max_size = 1

OrchIdle == InitOrch /\ ~authenticated

ParserIdle == InitParser /\ praw = <<>>

ValidateIdle == InitValidate /\ vaction = ParsedResponse(AT_THINK, <<"hello", "!">>, 10)

LimiterIdle == InitLimiter({1}) /\ max_rpm = 1

InputIdle == InitInput /\ max_actions_per_second = 1

\* the state of the components added last, before anything happened
InitExtra == InitEmotion /\ InputIdle /\ InitLists /\ InitChat /\ InitSocket

InitSpecQueue == InitQueue /\ LimiterIdle /\ InitBrain /\ OrchIdle /\ ParserIdle /\ InitProducers /\ InitShutdown /\ ValidateIdle /\ InitWait /\ InitExtra

NextSpecQueue ==
  \/ \E p \in Priority, now \in qclock..MaxClock :
       put_nowait(CHAT_MESSAGE, p, now) /\ UNCHANGED <<rvars, bvars, ovars, pvars, hvars, svars, vvars, gvars, xvars>>
  \/ get_nowait /\ UNCHANGED <<rvars, bvars, ovars, pvars, hvars, svars, vvars, gvars, xvars>>
  \/ clear /\ UNCHANGED <<rvars, bvars, ovars, pvars, hvars, svars, vvars, gvars, xvars>>

\* the event queue and its callers
SpecQueue == InitSpecQueue /\ [][NextSpecQueue]_vars

\* the priorities of the runs that enqueue events with equal keys
TiePriorities == {HIGH, MEDIUM}

InitSpecQueueTies == InitQueue /\ LimiterIdle /\ InitBrain /\ OrchIdle /\ ParserIdle /\ InitProducers /\ InitShutdown /\ ValidateIdle /\ InitWait /\ InitExtra

NextSpecQueueTies ==
  \/ \E p \in TiePriorities, now \in qclock..MaxClock :
       /\ nputs < Len(EventTypeValues)
       /\ put_nowait(EventTypeValues[nputs + 1], p, now)
       /\ UNCHANGED <<rvars, bvars, ovars, pvars, hvars, svars, vvars, gvars, xvars>>
  \/ get_nowait /\ UNCHANGED <<rvars, bvars, ovars, pvars, hvars, svars, vvars, gvars, xvars>>
  \/ clear /\ UNCHANGED <<rvars, bvars, ovars, pvars, hvars, svars, vvars, gvars, xvars>>

\* the queue alone, the k-th enqueue call using the k-th event type
SpecQueueTies == InitSpecQueueTies /\ [][NextSpecQueueTies]_vars

InitSpecLimiter == QueueIdle /\ InitLimiter(1..MaxCallers) /\ InitBrain /\ OrchIdle /\ ParserIdle /\ InitProducers /\ InitShutdown /\ ValidateIdle /\ InitWait /\ InitExtra

NextSpecLimiter ==
  \/ \E c \in callers : AcquireCall(c) /\ UNCHANGED <<qvars, bvars, ovars, pvars, hvars, svars, vvars, gvars, xvars>>
  \/ \E c \in callers : AcquireWake(c) /\ UNCHANGED <<qvars, bvars, ovars, pvars, hvars, svars, vvars, gvars, xvars>>
  \/ get_remaining /\ UNCHANGED <<qvars, bvars, ovars, pvars, hvars, svars, vvars, gvars, xvars>>
  \/ ClockAdvance /\ UNCHANGED <<qvars, bvars, ovars, pvars, hvars, svars, vvars, gvars, xvars>>

\* the rate limiter called by several tasks
SpecLimiter == InitSpecLimiter /\ [][NextSpecLimiter]_vars

InitSpecLimiterSingle == QueueIdle /\ InitLimiter({1}) /\ InitBrain /\ OrchIdle /\ ParserIdle /\ InitProducers /\ InitShutdown /\ ValidateIdle /\ InitWait /\ InitExtra

\* the rate limiter called by one task, as the tick loop does
SpecLimiterSingle == InitSpecLimiterSingle /\ [][NextSpecLimiter]_vars

InitSpecBrain == QueueIdle /\ InitLimiter({1}) /\ InitBrain /\ OrchIdle /\ ParserIdle /\ InitProducers /\ InitShutdown /\ ValidateIdle /\ InitWait /\ InitExtra

NextSpecBrain ==
  \/ \E e \in EntryPoints : BrainCall(e) /\ UNCHANGED <<qvars, ovars, pvars, hvars, svars, vvars, gvars, xvars>>
  \/ BrainAcquireWake /\ UNCHANGED <<qvars, ovars, pvars, hvars, svars, vvars, gvars, xvars>>
  \/ \E response \in Responses : ApiSucceeds(response) /\ UNCHANGED <<qvars, ovars, pvars, hvars, svars, vvars, gvars, xvars>>
  \/ \E counted \in BOOLEAN : ApiFails(counted) /\ UNCHANGED <<qvars, ovars, pvars, hvars, svars, vvars, gvars, xvars>>
  \/ BackoffEnds /\ UNCHANGED <<qvars, ovars, pvars, hvars, svars, vvars, gvars, xvars>>
  \/ ClockAdvance /\ UNCHANGED <<qvars, bvars, ovars, pvars, hvars, svars, vvars, gvars, xvars>>

\* the decision client with its rate limiter, called by the tick loop
SpecBrain == InitSpecBrain /\ [][NextSpecBrain]_vars

InitSpecOrch == QueueIdle /\ LimiterIdle /\ InitBrain /\ InitOrch /\ ParserIdle /\ InitProducers /\ InitShutdown /\ ValidateIdle /\ InitWait /\ InitExtra

NextSpecOrch ==
  \/ \E ok \in BOOLEAN : Initialize(ok) /\ UNCHANGED <<qvars, rvars, bvars, pvars, hvars, vvars, gvars, xvars>>
  \/ RunStart /\ UNCHANGED <<qvars, rvars, bvars, pvars, hvars, vvars, gvars, xvars>>
  \/ \E outcome \in {"audio", "empty", "raise"} :
       SynthReturns(outcome) /\ UNCHANGED <<qvars, rvars, bvars, pvars, hvars, svars, vvars, gvars, xvars>>
  \/ SpeakPoll /\ UNCHANGED <<qvars, rvars, bvars, pvars, hvars, svars, vvars, gvars, xvars>>
  \/ \E nfail \in 0..1 : WorkerTake(nfail) /\ UNCHANGED <<qvars, rvars, bvars, pvars, hvars, svars, vvars, gvars, xvars>>
  \/ \E nfail \in 0..1 : PlaybackDone(nfail) /\ UNCHANGED <<qvars, rvars, bvars, pvars, hvars, svars, vvars, gvars, xvars>>
  \/ \E raised \in BOOLEAN : AnimationEnds(raised) /\ UNCHANGED <<qvars, rvars, bvars, pvars, hvars, svars, vvars, gvars, xvars>>
  \/ \E trigger \in BOOLEAN : TickStart(trigger) /\ UNCHANGED <<rvars, bvars, pvars, hvars, vvars, gvars, xvars>>
  \/ \E response \in Responses : DecisionReturns(response) /\ UNCHANGED <<qvars, rvars, bvars, pvars, hvars, vvars, gvars, xvars>>
  \/ DecisionFails /\ UNCHANGED <<qvars, rvars, bvars, pvars, hvars, vvars, gvars, xvars>>
  \/ \E raised \in BOOLEAN : EffectorReturns(raised) /\ UNCHANGED <<qvars, rvars, bvars, pvars, hvars, svars, vvars, gvars, xvars>>
  \/ \E p \in {HIGH, MEDIUM}, now \in {qclock} :
       HandleChatMessage(p, now) /\ UNCHANGED <<rvars, bvars, ovars, pvars, svars, vvars, gvars, xvars>>
  \/ put_resume /\ UNCHANGED <<rvars, bvars, ovars, pvars, svars, vvars, gvars, xvars, chat_context,
                                offered_full,
                                nspeech, speech_heard, speech_enqueued, nproduced>>

\* the main loop with the playback worker, the animation task and the
\* handlers that enqueue events
SpecOrch == InitSpecOrch /\ [][NextSpecOrch]_vars

InitSpecShutdown == QueueIdle /\ LimiterIdle /\ InitBrain /\ InitOrch /\ ParserIdle /\ InitProducers /\ InitShutdown /\ ValidateIdle /\ InitWait /\ InitExtra

NextSpecShutdown ==
  \/ \E ok \in BOOLEAN : Initialize(ok) /\ UNCHANGED <<qvars, rvars, bvars, pvars, hvars, vvars, gvars, xvars>>
  \/ RunStart /\ UNCHANGED <<qvars, rvars, bvars, pvars, hvars, vvars, gvars, xvars>>
  \/ \E outcome \in {"audio", "empty", "raise"} :
       SynthReturns(outcome) /\ UNCHANGED <<qvars, rvars, bvars, pvars, hvars, svars, vvars, gvars, xvars>>
  \/ SpeakPoll /\ UNCHANGED <<qvars, rvars, bvars, pvars, hvars, svars, vvars, gvars, xvars>>
  \/ \E nfail \in 0..1 : WorkerTake(nfail) /\ UNCHANGED <<qvars, rvars, bvars, pvars, hvars, svars, vvars, gvars, xvars>>
  \/ \E nfail \in 0..1 : PlaybackDone(nfail) /\ UNCHANGED <<qvars, rvars, bvars, pvars, hvars, svars, vvars, gvars, xvars>>
  \/ \E raised \in BOOLEAN : AnimationEnds(raised) /\ UNCHANGED <<qvars, rvars, bvars, pvars, hvars, svars, vvars, gvars, xvars>>
  \/ \E trigger \in BOOLEAN : TickStart(trigger) /\ UNCHANGED <<rvars, bvars, pvars, hvars, vvars, gvars, xvars>>
  \/ \E response \in Responses : DecisionReturns(response) /\ UNCHANGED <<qvars, rvars, bvars, pvars, hvars, vvars, gvars, xvars>>
  \/ DecisionFails /\ UNCHANGED <<qvars, rvars, bvars, pvars, hvars, vvars, gvars, xvars>>
  \/ \E raised \in BOOLEAN : EffectorReturns(raised) /\ UNCHANGED <<qvars, rvars, bvars, pvars, hvars, svars, vvars, gvars, xvars>>
  \/ put_resume /\ UNCHANGED <<rvars, bvars, ovars, pvars, svars, vvars, gvars, xvars, chat_context,
                                offered_full,
                                nspeech, speech_heard, speech_enqueued, nproduced>>
  \/ Interrupt /\ UNCHANGED <<qvars, rvars, bvars, pvars, hvars, vvars, gvars, xvars>>
  \/ \E raised \in BOOLEAN : DisconnectReturns(raised) /\ UNCHANGED <<qvars, rvars, bvars, pvars, hvars, vvars, gvars, xvars>>
  \/ \E raised \in BOOLEAN : CleanupReturns(raised) /\ UNCHANGED <<qvars, rvars, bvars, pvars, hvars, vvars, gvars, xvars>>
  \/ \E now \in {qclock} :
       PutShutdownEvent(now) /\ UNCHANGED <<rvars, bvars, ovars, pvars, svars, vvars, gvars, xvars>>

\* the tick loop fed with shutdown events, the interrupt and shutdown()
SpecShutdown == InitSpecShutdown /\ [][NextSpecShutdown]_vars

InitSpecParser == QueueIdle /\ LimiterIdle /\ InitBrain /\ OrchIdle /\ InitParser /\ InitProducers /\ InitShutdown /\ ValidateIdle /\ InitWait /\ InitExtra

InitSpecValidate ==
  QueueIdle /\ LimiterIdle /\ InitBrain /\ OrchIdle /\ ParserIdle /\ InitProducers /\ InitShutdown
    /\ InitValidate /\ InitWait /\ InitExtra

NextSpecValidate ==
  \/ ValidateOnce /\ UNCHANGED <<qvars, rvars, bvars, ovars, pvars, hvars, svars, gvars, xvars>>
  \/ ValidateAgain /\ UNCHANGED <<qvars, rvars, bvars, ovars, pvars, hvars, svars, gvars, xvars>>
  \/ \E limited \in BOOLEAN :
       ExecuteGameAction(limited) /\ UNCHANGED <<qvars, rvars, bvars, ovars, pvars, hvars, svars, gvars, xvars>>

\* validate_action applied to an action, applied again, and the action executed
SpecValidate == InitSpecValidate /\ [][NextSpecValidate]_vars

\* the event types of the runs of get and wait_for_event
WaitTypes == {CHAT_MESSAGE, GAME_STATE_CHANGE}

InitSpecWait ==
  InitQueue /\ LimiterIdle /\ InitBrain /\ OrchIdle /\ ParserIdle /\ InitProducers /\ InitShutdown
    /\ ValidateIdle /\ InitWait /\ InitExtra

NextSpecWait ==
  \/ \E event_type \in WaitTypes, p \in {CRITICAL, MEDIUM}, now \in {qclock} :
       put_nowait(event_type, p, now)
         /\ UNCHANGED <<rvars, bvars, ovars, pvars, hvars, svars, vvars, gvars, xvars>>
  \/ \E timeout \in Timeouts :
       GetCall(timeout) /\ UNCHANGED <<rvars, bvars, ovars, pvars, hvars, svars, vvars, xvars>>
  \/ GetWakes /\ UNCHANGED <<rvars, bvars, ovars, pvars, hvars, svars, vvars, xvars>>
  \/ GetTimesOut /\ UNCHANGED <<rvars, bvars, ovars, pvars, hvars, svars, vvars, xvars>>
  \/ TimePasses /\ UNCHANGED <<rvars, bvars, ovars, pvars, hvars, svars, vvars, xvars>>
  \/ \E event_type \in WaitTypes, timeout \in Timeouts :
       WaitForEventCall(event_type, timeout)
         /\ UNCHANGED <<rvars, bvars, ovars, pvars, hvars, svars, vvars, xvars>>
  \/ WaitLoop /\ UNCHANGED <<rvars, bvars, ovars, pvars, hvars, svars, vvars, xvars>>
  \/ \E d \in 0..1 : Requeue(d) /\ UNCHANGED <<rvars, bvars, ovars, pvars, hvars, svars, vvars, xvars>>

\* producers that enqueue without waiting and one consumer in get or
\* wait_for_event
SpecWait == InitSpecWait /\ [][NextSpecWait]_vars

InitSpecEmotion ==
  QueueIdle /\ LimiterIdle /\ InitBrain /\ OrchIdle /\ ParserIdle /\ InitProducers /\ InitShutdown
    /\ ValidateIdle /\ InitWait /\ InitExtra

\* the content of an EMOTION action that passed validate_action is dispatched
NextSpecEmotion ==
  \/ \E e \in {c \in VALID_EMOTIONS : ValidateAction(ParsedResponse(AT_EMOTION, <<c>>, 10))},
        is_authenticated \in BOOLEAN :
       ExecuteEmotion(e, is_authenticated)
         /\ UNCHANGED <<qvars, rvars, bvars, ovars, pvars, hvars, svars, vvars, gvars, ivars, lvars, cvars, wvars>>

\* SetEmotion dispatches
SpecEmotion == InitSpecEmotion /\ [][NextSpecEmotion]_vars

InitSpecInput ==
  QueueIdle /\ LimiterIdle /\ InitBrain /\ OrchIdle /\ ParserIdle /\ InitProducers /\ InitShutdown
    /\ ValidateIdle /\ InitWait /\ InitEmotion /\ InitInput /\ InitLists /\ InitChat /\ InitSocket

NextSpecInput ==
  \/ \E action \in GameActions, success \in BOOLEAN :
       DispatchGameAction(action, success)
         /\ UNCHANGED <<qvars, rvars, bvars, ovars, pvars, hvars, svars, vvars, gvars, evars, lvars, cvars, wvars>>
  \/ InputClockAdvance
       /\ UNCHANGED <<qvars, rvars, bvars, ovars, pvars, hvars, svars, vvars, gvars, evars, lvars, cvars, wvars>>

\* game actions dispatched by the tick loop as time goes on
SpecInput == InitSpecInput /\ [][NextSpecInput]_vars

InitSpecLists ==
  QueueIdle /\ LimiterIdle /\ InitBrain /\ OrchIdle /\ ParserIdle /\ InitProducers /\ InitShutdown
    /\ ValidateIdle /\ InitWait /\ InitExtra

NextSpecLists ==
  \/ \E author \in {"viewer"} :
       add_message(author)
         /\ UNCHANGED <<qvars, rvars, bvars, ovars, pvars, hvars, svars, vvars, gvars, evars,
                        max_actions_per_second, action_count, last_reset_time, iclock, actions,
                        executed, cvars, wvars>>
  \/ \E action_type \in {"game_input"} :
       add_action(action_type)
         /\ UNCHANGED <<qvars, rvars, bvars, ovars, pvars, hvars, svars, vvars, gvars, evars,
                        max_actions_per_second, action_count, last_reset_time, iclock, executed, cvars, wvars>>
  \/ add_game_outcome
       /\ UNCHANGED <<qvars, rvars, bvars, ovars, pvars, hvars, svars, vvars, gvars, evars,
                      ivars, cvars, wvars>>

\* chat messages, actions and game outcomes recorded in any order
SpecLists == InitSpecLists /\ [][NextSpecLists]_vars

InitSpecGame ==
  QueueIdle /\ LimiterIdle /\ InitBrain /\ OrchIdle /\ ParserIdle /\ InitProducers /\ InitShutdown
    /\ ValidateIdle /\ InitWait /\ InitExtra

NextSpecGame ==
  \/ add_game_outcome
       /\ UNCHANGED <<qvars, rvars, bvars, ovars, pvars, hvars, svars, vvars, gvars, evars,
                      ivars, cvars, wvars>>
  \/ add_achievement
       /\ UNCHANGED <<qvars, rvars, bvars, ovars, pvars, hvars, svars, vvars, gvars, evars,
                      ivars, cvars, wvars>>

\* outcomes and achievements of a game recorded in any order
SpecGame == InitSpecGame /\ [][NextSpecGame]_vars

InitSpecProducers ==
  InitQueue /\ LimiterIdle /\ InitBrain /\ OrchIdle /\ ParserIdle /\ InitProducers /\ InitShutdown
    /\ ValidateIdle /\ InitWait /\ InitExtra

NextSpecProducers ==
  \/ \E p \in ChatPriorities, now \in qclock..MaxClock :
       HandleChatMessage(p, now) /\ UNCHANGED <<rvars, bvars, ovars, pvars, svars, vvars, gvars, xvars>>
  \/ put_resume /\ UNCHANGED <<rvars, bvars, ovars, pvars, svars, vvars, gvars, xvars, chat_context,
                                offered_full,
                                nspeech, speech_heard, speech_enqueued, nproduced>>
  \/ \E text \in Transcriptions, now \in qclock..MaxClock :
       OnStreamerSpeech(text, now) /\ UNCHANGED <<rvars, bvars, ovars, pvars, svars, vvars, gvars, xvars>>
  \/ get_nowait /\ UNCHANGED <<rvars, bvars, ovars, pvars, hvars, svars, vvars, gvars, xvars>>

\* the chat callback and the voice callback enqueuing, the tick loop dequeuing
SpecProducers == InitSpecProducers /\ [][NextSpecProducers]_vars

InitSpecChat ==
  InitQueue /\ LimiterIdle /\ InitBrain /\ OrchIdle /\ ParserIdle /\ InitProducers /\ InitShutdown
    /\ ValidateIdle /\ InitWait /\ InitExtra

NextSpecChat ==
  \/ \E message \in ChatMessages, now \in {qclock} :
       HandleParsedChatMessage(message, now)
         /\ UNCHANGED <<rvars, bvars, ovars, pvars, svars, vvars, gvars, evars, ivars, lvars, wvars>>
  \/ put_resume /\ UNCHANGED <<rvars, bvars, ovars, pvars, svars, vvars, gvars, xvars, chat_context,
                                offered_full,
                                nspeech, speech_heard, speech_enqueued, nproduced>>
  \/ get_nowait /\ UNCHANGED <<rvars, bvars, ovars, pvars, hvars, svars, vvars, gvars, xvars>>

\* the chat callback parsing and enqueuing, the tick loop dequeuing
SpecChat == InitSpecChat /\ [][NextSpecChat]_vars

InitSpecTts ==
  QueueIdle /\ LimiterIdle /\ InitBrain /\ OrchIdle /\ ParserIdle /\ InitProducers /\ InitShutdown
    /\ ValidateIdle /\ InitWait /\ InitExtra

NextSpecTts ==
  \/ \E outcome \in {"audio", "empty"} :
       TtsSpeak(outcome)
         /\ UNCHANGED <<qvars, rvars, bvars, pvars, hvars, svars, vvars, gvars, xvars>>
  \/ \E nfail \in 0..2 :
       WorkerTake(nfail)
         /\ UNCHANGED <<qvars, rvars, bvars, pvars, hvars, svars, vvars, gvars, xvars>>
  \/ \E nfail \in 0..2 :
       PlaybackDone(nfail)
         /\ UNCHANGED <<qvars, rvars, bvars, pvars, hvars, svars, vvars, gvars, xvars>>

\* tasks calling speak() and the playback worker
SpecTts == InitSpecTts /\ [][NextSpecTts]_vars

InitSpecSocket ==
  QueueIdle /\ LimiterIdle /\ InitBrain /\ OrchIdle /\ ParserIdle /\ InitProducers /\ InitShutdown
    /\ ValidateIdle /\ InitWait /\ InitExtra

NextSpecSocket ==
  \/ \E t \in SocketTasks :
       SendRequest(t)
         /\ UNCHANGED <<qvars, rvars, bvars, ovars, pvars, hvars, svars, vvars, gvars, evars,
                        ivars, lvars, cvars>>
  \/ \E t \in SocketTasks :
       ReceiveResponse(t)
         /\ UNCHANGED <<qvars, rvars, bvars, ovars, pvars, hvars, svars, vvars, gvars, evars,
                        ivars, lvars, cvars>>
  \/ \E t \in {"loop"} :
       CancelRequest(t)
         /\ UNCHANGED <<qvars, rvars, bvars, ovars, pvars, hvars, svars, vvars, gvars, evars,
                        ivars, lvars, cvars>>

\* the tick loop's task and the animation task exchanging with the renderer
SpecSocket == InitSpecSocket /\ [][NextSpecSocket]_vars

NextSpecParser ==
  \/ ParseStep /\ UNCHANGED <<qvars, rvars, bvars, ovars, hvars, svars, vvars, gvars, xvars>>
  \/ ValidateStep /\ UNCHANGED <<qvars, rvars, bvars, ovars, hvars, svars, vvars, gvars, xvars>>

\* the parser applied to every text of at most MaxTextLen symbols
SpecParser == InitSpecParser /\ [][NextSpecParser]_vars

(***************************************************************************)
(* Claims about the event queue.                                           *)
(***************************************************************************)
\* C1: events dequeued with no enqueue in between come out non-decreasing in
\* priority value and, among equal priorities, non-decreasing in timestamp;
\* enqueuing LOW, CRITICAL, MEDIUM, HIGH on a fresh queue and dequeuing all
\* four yields CRITICAL, HIGH, MEDIUM, LOW.
C1_DequeueOrder ==
  /\ \A i \in 1..(Len(dequeued) - 1) :
        /\ dequeued[i].priority <= dequeued[i + 1].priority
        /\ dequeued[i].priority = dequeued[i + 1].priority
             => dequeued[i].timestamp <= dequeued[i + 1].timestamp
  /\ (scenario = Len(ScenarioA) /\ Len(dequeued) = Len(ScenarioA))
       => [i \in 1..Len(dequeued) |-> dequeued[i].priority]
            = <<CRITICAL, HIGH, MEDIUM, LOW>>

\* the scenario's four events have all been dequeued
C1_Witness == scenario = Len(ScenarioA) /\ Len(dequeued) = Len(ScenarioA)

\* C2: with max_size N > 0, qsize() <= N always; dropped_count is the number
\* of put_nowait calls that returned False; each such call was made at
\* qsize() = N and left the queue contents unchanged.
C2_BoundedAndCounted ==
  max_size > 0 =>
    /\ qsize <= max_size
    /\ dropped_count = rejected
    /\ (qlast.op = "put_nowait" /\ ~qlast.ok)
         => (qlast.size_before = max_size /\ ~qlast.changed)

\* a put_nowait has just been rejected, after an earlier rejection and a dequeue
C2_Witness ==
  /\ qlast.op = "put_nowait" /\ ~qlast.ok
  /\ dropped_count >= 2
  /\ processed_count >= 1

\* the position of an event type in EventTypeValues: in SpecQueueTies, the
\* number of the call that enqueued the event
TypeIndex(t) == CHOOSE k \in 1..Len(EventTypeValues) : EventTypeValues[k] = t

\* C17: events with the same priority and the same timestamp are dequeued in
\* the order in which they were enqueued.
C17_FifoOnTies ==
  \A i, j \in 1..Len(dequeued) :
    (/\ i < j
     /\ dequeued[i].priority = dequeued[j].priority
     /\ dequeued[i].timestamp = dequeued[j].timestamp)
      => TypeIndex(dequeued[i].event_type) < TypeIndex(dequeued[j].event_type)

(***************************************************************************)
(* Claims about the rate limiter.                                          *)
(***************************************************************************)
\* the recorded requests that are not older than the window at the clock reading
InWindow == {i \in 1..Len(requests) : requests[i] >= rclock - Window}

\* C3: after any interleaving of acquire() and get_remaining(), at any
\* instants, the list holds at most max_rpm requests within the last 60
\* seconds and get_remaining() returns a value in [0, max_rpm].
C3_RemainingInRange ==
  /\ Cardinality(InWindow) <= max_rpm
  /\ remaining \in 0..max_rpm

\* C4: an acquire() called with max_rpm requests recorded in the window
\* suspends; it records its request and returns only once the oldest of them
\* is 60 seconds old, and no later than 60 seconds after it was called (plus
\* the lateness of the event loop's timer, when the sleep ends late).
C4_SuspendsUntilSlot ==
  acquired.at_limit =>
    /\ acquired.recorded >= acquired.oldest + Window
    /\ acquired.returned >= acquired.oldest + Window
    /\ acquired.called < acquired.oldest + Window => acquired.sleeps = 1
    /\ acquired.returned <= acquired.called + Window + acquired.late
    /\ \A c \in callers :
         acq[c].pc = "sleeping" =>
           /\ acq[c].wake = acq[c].oldest + Window
           /\ acq[c].wake <= acq[c].called + Window

\* an acquire() that found the limit reached has slept, on time, and returned
C4_Witness ==
  /\ acquired.at_limit
  /\ acquired.sleeps = 1
  /\ acquired.late = 0
  /\ acquired.returned > acquired.called

(***************************************************************************)
(* Claims about the decision client.                                       *)
(***************************************************************************)
\* C5: for one decision request the decision backend is called at most 3
\* times; a successful attempt ends the retries (the request has returned and
\* makes no further call); a request whose attempts all failed made 3 calls
\* and returned None, and no request raised into its caller.
C5_AtMostThreeCalls ==
  /\ req.calls <= 3
  /\ req.succeeded => bpc = "idle"
  /\ ~req.raised
  /\ (nrequests > 0 /\ bpc = "idle" /\ ~req.succeeded) => (req.calls = 3 /\ result = None)

\* a request whose 3 attempts all failed has returned None
C5_Witness ==
  /\ nrequests > 0
  /\ bpc = "idle"
  /\ ~req.succeeded
  /\ req.calls = 3
  /\ failed_requests >= 1
  /\ result = None

\* C6: at every moment the number of backend calls started is at most the
\* number of rate_limiter.acquire() calls completed, retries included.
C6_AcquireBeforeEveryCall == ncalls <= nacquired

\* a retry attempt called the backend after an acquire() that had to sleep
C6_Witness ==
  /\ bpc = "api"
  /\ attempt >= 2
  /\ acquired.sleeps > 0
  /\ ncalls = attempt

\* the action fails validation: kind UNKNOWN, an EMOTION outside the valid
\* emotions, or an ACTION containing a denylisted keyword
FailsValidation(a) ==
  \/ a.action_type = AT_UNKNOWN
  \/ /\ a.action_type = AT_EMOTION
     /\ ~(Len(a.content) = 1 /\ Lower(a.content[1]) \in VALID_EMOTIONS)
  \/ /\ a.action_type = AT_ACTION
     /\ \E k \in DangerousKeywords : Contains(LowerText(a.content), {k})

\* C7: no action that fails validation is handed to _execute_ai_action or
\* returned by a brain entry point; for a response parsed to such an action
\* the entry point returned None and nothing was handed on.
C7_NoInvalidActionDispatched ==
  /\ handed # None => ~FailsValidation(handed)
  /\ result # None => ~FailsValidation(result)
  /\ (req.succeeded /\ FailsValidation(req.parsed)) => (result = None /\ handed = None)

\* the backend answered with a denylisted game action and the entry point
\* returned None
C7_Witness ==
  /\ req.succeeded
  /\ req.parsed.action_type = AT_ACTION
  /\ FailsValidation(req.parsed)
  /\ entry \in DispatchedEntryPoints
  /\ result = None
  /\ handed = None

(***************************************************************************)
(* Claims about the orchestrator.                                          *)
(***************************************************************************)
\* C8: an _execute_speak call that queued audio has ended (flag cleared,
\* call returned) only if the playback worker is done with that audio, and
\* while the worker plays audio StateManager.is_speaking is true.
C8_FlagHeldUntilPlayed ==
  /\ (speak.ended /\ speak.outcome = "audio") => speak.id \in finished
  /\ wpc = "playing" => sm_is_speaking

\* C9: once a Speak dispatch has ended (normally, after synthesis gave no
\* audio, or after the synthesis service raised) StateManager.is_speaking is
\* false.
C9_FlagClearedWhenSpeakEnds == speak.ended => ~sm_is_speaking

\* a Speak dispatch in a tick ended after the synthesis service raised
C9_Witness ==
  /\ ctx = "tick"
  /\ speak.ended
  /\ speak.outcome = "raise"
  /\ exc.site = "synthesis"
  /\ ~sm_is_speaking

\* C10: an exception raised inside a tick is caught by a function running
\* inside that tick; the loop is never left and running stays true.
C10_TickCatchesExceptions ==
  /\ opc # "stopped"
  /\ opc \notin {"new", "init", "failed"} => running
  /\ exc.site # "none" =>
       exc.handler \in {"_process_event", "_execute_ai_action", "idle_behavior",
                        "generate_speech", "_main_loop_iteration"}

\* a later tick started after a tick in which event handling raised
C10_Witness ==
  /\ exc.site = "event"
  /\ exc.tick >= 1
  /\ nticks > exc.tick
  /\ running

(***************************************************************************)
(* Claims about the response parser.                                       *)
(***************************************************************************)
\* the action kind whose structured prefix the symbol is, or AT_UNKNOWN
PrefixKind(sym) ==
  CASE Lower(sym) \in {"speak:", "[speak]"} -> AT_SPEAK
    [] Lower(sym) \in {"emotion:", "[emotion]"} -> AT_EMOTION
    [] Lower(sym) \in {"action:", "[action]"} -> AT_ACTION
    [] Lower(sym) \in {"think:", "[think]"} -> AT_THINK
    [] OTHER -> AT_UNKNOWN

\* the text is a structured prefix followed by content
Structured(raw) ==
  /\ Strip(raw) # <<>>
  /\ PrefixKind(Strip(raw)[1]) # AT_UNKNOWN
  /\ Strip(Tail(Strip(raw))) # <<>>

\* C19: for a structured prefix followed by content, parse() returns that
\* action kind with the trimmed content and confidence 1.0; for every other
\* text, the empty and the whitespace-only text included, it returns an
\* action with confidence below 1.0 whose kind is not UNKNOWN.
C19_ParseRoundTrip ==
  ppc = "parsed" =>
    IF Structured(praw)
    THEN /\ pparsed.action_type = PrefixKind(Strip(praw)[1])
         /\ pparsed.content = Strip(Tail(Strip(praw)))
         /\ pparsed.confidence = 10
    ELSE /\ pparsed.confidence < 10
         /\ pparsed.action_type # AT_UNKNOWN

\* C20: every EMOTION action returned by parse() has a content in the valid
\* emotion set; "EMOTION: ecstatic" yields EMOTION with content "neutral".
C20_EmotionContentValid ==
  ppc = "parsed" =>
    /\ pparsed.action_type = AT_EMOTION
         => (Len(pparsed.content) = 1 /\ pparsed.content[1] \in VALID_EMOTIONS)
    /\ praw = <<"EMOTION:", " ", "ecstatic">>
         => (pparsed.action_type = AT_EMOTION /\ pparsed.content = <<"neutral">>)

\* parse() has returned for "EMOTION: ecstatic"
C20_Witness ==
  /\ ppc = "parsed"
  /\ praw = <<"EMOTION:", " ", "ecstatic">>
  /\ pparsed.action_type = AT_EMOTION

\* C15: a producer step (the chat callback, the voice callback) changes only
\* the event queue: the chat context of the StateManager and the speaking
\* flags are as they were before the step.
C15_ProducerChangesOnlyQueue ==
  [][nproduced' # nproduced =>
       UNCHANGED <<chat_context, sm_is_speaking, tts_is_speaking>>]_vars

\* C16: an event offered through EventQueue.put while the queue is at
\* capacity is dropped: no put is left suspended, and dropped_count counts
\* every put that found the queue full.
C16_FullPutDropsEvent ==
  /\ putters = <<>>
  /\ dropped_count = offered_full

\* C18: every non-empty transcription delivered to the voice callback has an
\* operator-speech event of priority CRITICAL enqueued for it.
C18_SpeechEnqueuedCritical == speech_enqueued = speech_heard

\* C11: when the tick loop has dequeued a SYSTEM_SHUTDOWN event and finished
\* that tick, the running flag is false (so that the loop exits and shutdown()
\* runs).
C11_ShutdownEventStopsLoop ==
  ( /\ opc = "sleep"
    /\ qlast.op = "get_nowait"
    /\ qlast.ok
    /\ dequeued[Len(dequeued)].event_type = SYSTEM_SHUTDOWN ) => ~running

\* C12: when shutdown() has completed the event queue is empty.
C12_QueueDrainedAfterShutdown == opc = "down" => qsize = 0

\* C13: when an execution of shutdown() has ended, by returning or by an
\* exception of the avatar disconnect or of the TTS cleanup, every task
\* started by initialize() was cancelled and awaited.
C13_TasksCancelledInEveryShutdown == opc \in {"down", "aborted"} => cancelled = Tasks

\* the tick loop is inside _execute_ai_action, dispatching a decision's action
Dispatching == ctx = "tick" /\ opc \in {"synth", "wait", "effector"}

Denylist == FORBIDDEN_ACTIONS \cup DangerousKeywords

\* C21: a control-input action whose content contains a denylisted token, in
\* any letter case and with any whitespace around it, is not forwarded to the
\* keyboard or mouse executor.
C21_DenylistedNeverExecuted ==
  vexecuted # "none" => ~Contains(Strip(LowerText(vaction.content)), Denylist)

\* C22: after validate_action the content of a SPEAK action has at most
\* SpeakCap characters.
C22_SpeakWithinCap ==
  (vpc # "input" /\ vaction.action_type = AT_SPEAK) => Len(vaction.content) <= SpeakCap

\* C23: a second validate_action gives the verdict and the content of the first.
C23_ValidateIdempotent ==
  vpc = "twice" => (vverdicts[2] = vverdicts[1] /\ vcontents[2] = vcontents[1])

\* an over-long speech was truncated by the first call and validated again
C23_Witness ==
  /\ vpc = "twice"
  /\ vaction.action_type = AT_SPEAK
  /\ Len(vcontents[1]) > SpeakCap
  /\ vverdicts[2]

\* C24: an event of a kind that has a handler, dequeued by a tick, was handed
\* to that handler when the tick is over.
C24_DequeuedEventHandled ==
  ( /\ opc = "sleep"
    /\ qlast.op = "get_nowait"
    /\ qlast.ok
    /\ HandlerOf(dequeued[Len(dequeued)].event_type) # "none" )
    => handled = HandlerOf(dequeued[Len(dequeued)].event_type)

\* C25: while a decision request is in flight StateManager.is_busy() is
\* false: the system state is not INITIALIZING, SHUTTING_DOWN or ERROR and
\* is_speaking is not set.
C25_NoDecisionWhileBusy == inflight > 0 => ~IsBusy

\* a decision is requested in a tick that follows a failed Speak dispatch of
\* an earlier tick's decision
C25_Witness ==
  /\ inflight = 1
  /\ opc = "decide"
  /\ speak.id = 2
  /\ speak.outcome \in {"raise", "empty"}

\* a change of system_state the state machine allows
AllowedChange(old, new) ==
  \/ old = INITIALIZING /\ new = IDLE
  \/ old = IDLE /\ new \in {CHATTING, GAMING, RESPONDING}
  \/ old \in {CHATTING, GAMING, RESPONDING} /\ new = IDLE
  \/ old # SHUTTING_DOWN /\ new = SHUTTING_DOWN

\* C26: system_state changes only along INITIALIZING -> IDLE, IDLE <->
\* {CHATTING, GAMING, RESPONDING} and from any of them to SHUTTING_DOWN;
\* SHUTTING_DOWN is never left and INITIALIZING never re-entered.
C26_SystemStateTransitions ==
  [][system_state' # system_state => AllowedChange(system_state, system_state')]_vars

\* shutdown() has run to its end after initialize() and run()
C26_Witness == opc = "down" /\ system_state = SHUTTING_DOWN /\ nticks > 0

\* C27: when run() has terminated after being started, shutdown() was
\* executed (it begins by setting SHUTTING_DOWN).
C27_ShutdownOnEveryExit ==
  opc \in {"crashed", "down", "aborted"} => system_state = SHUTTING_DOWN

\* C28: a decision request is issued only by a tick whose dequeue returned no
\* event and in which system_state is IDLE; a tick dequeues at most one event.
C28_IdleDecisionOnlyWhenEmpty ==
  [][ /\ inflight' > inflight =>
           (heap = <<>> /\ system_state = IDLE /\ processed_count' = processed_count)
      /\ processed_count' <= processed_count + 1 ]_vars

\* an idle decision was requested by a tick that found the queue empty, after
\* an earlier tick had dequeued an event
C28_Witness == inflight = 1 /\ opc = "decide" /\ processed_count > 0 /\ qlast.op = "get_nowait"

\* C29: a get whose timeout is set (any t >= 0) is not left waiting on the
\* empty queue for longer than t: it has returned None by then.
C29_GetReturnsWithinTimeout ==
  (gpc = "waiting" /\ gcall.op = "get" /\ gcall.timeout.given) => gelapsed <= gcall.timeout.t

\* C30: wait_for_event called while an event of the requested type is in the
\* queue returns an event of that type, whatever else is queued.
C30_WaitForEventFindsQueued ==
  (gpc = "returned" /\ gcall.op = "wait_for_event" /\ gcall.present)
    => (gresult # <<>> /\ gresult[1].event_type = gcall.event_type)

(***************************************************************************)
(* Claims about the counters of the queue.                                 *)
(***************************************************************************)
\* C31: processed_count counts each event handed to a consumer once: while
\* no event is held by wait_for_event for re-queueing, the number of accepted
\* events equals processed_count plus qsize() (no clear occurred).
C31_ProcessedCountsEachEventOnce ==
  gpc # "requeue" => nputs - rejected = processed_count + qsize

(***************************************************************************)
(* Claims about the dispatch of emotions and game actions.                 *)
(***************************************************************************)
\* C32: after the dispatch of a validated SetEmotion with name e,
\* StateManager.emotional_state equals e.
C32_EmotionalStateFollowsDispatch == emotion # "none" => emotional_state = emotion

\* C33: every entry of ActionHistory is an action that was forwarded to the
\* input executor and carries the outcome of that execution.
C33_HistoryOnlyAfterExecution ==
  /\ Len(actions) = Len(executed)
  /\ \A i \in 1..Len(actions) :
       /\ actions[i].details = executed[i].action
       /\ actions[i].outcome = IF executed[i].success THEN "success" ELSE "failure"

\* C34: in any interval of one second at most max_actions_per_second input
\* actions are executed.
C34_AtMostMaxActionsPerSecond ==
  \A w \in 0..MaxInputClock :
    Cardinality({i \in 1..Len(executed) :
                   /\ executed[i].success
                   /\ executed[i].time >= w
                   /\ executed[i].time < w + InputTicksPerSecond}) <= max_actions_per_second

(***************************************************************************)
(* Claims about the rolling lists of the state manager.                    *)
(***************************************************************************)
\* the arrival numbers of the most recent min(n, cap) of n entries
MostRecent(n, cap) ==
  LET k == IF n < cap THEN n ELSE cap IN [i \in 1..k |-> n - k + i]

\* C35: recent_messages holds the most recent min(n, 20) messages in arrival
\* order, ActionHistory.actions the most recent min(n, 50) actions and
\* recent_outcomes the most recent min(n, 10) outcomes.
C35_RollingListsKeepMostRecent ==
  /\ [i \in 1..Len(recent_messages) |-> recent_messages[i].text]
       = MostRecent(added.messages, ContextCap)
  /\ [i \in 1..Len(actions) |-> actions[i].details] = MostRecent(added.actions, MaxHistory)
  /\ recent_outcomes = MostRecent(added.outcomes, OutcomesCap)

\* each of the three lists was given more entries than its cap
C35_Witness ==
  /\ added.messages > ContextCap
  /\ added.actions > MaxHistory
  /\ added.outcomes > OutcomesCap

\* C36: achievements is a bounded rolling list: it is never longer than the
\* largest cap of a rolling list of the state manager.
C36_AchievementsBounded == Len(achievements) <= MaxHistory

(***************************************************************************)
(* Claims about the priority of chat messages.                             *)
(***************************************************************************)
\* C37: a chat message that is a command or mentions the bot is enqueued
\* with priority HIGH and every other chat message with priority MEDIUM,
\* whatever the author flags.
C37_ChatPriorityHighOrMedium ==
  last_chat # NoChat =>
    last_chat.priority =
      IF last_chat.message.is_command \/ last_chat.message.mentions_bot THEN HIGH ELSE MEDIUM

(***************************************************************************)
(* Claims about the ids of events.                                         *)
(***************************************************************************)
\* C38: two events that are in the queue together have different ids.
C38_EventIdsDistinct ==
  \A i, j \in 1..Len(heap) : i # j => heap[i].id # heap[j].id

(***************************************************************************)
(* Claims about the playback worker.                                       *)
(***************************************************************************)
\* C39: TTSManager.is_speaking is true exactly while the worker plays an
\* utterance, and when the worker starts an utterance every utterance queued
\* before it has ended (played or failed) and every utterance still queued
\* was queued after it.
C39_PlayedOneByOneInQueueOrder ==
  [][ /\ tts_is_speaking' <=> wpc' = "playing"
      /\ wpc' = "playing" <=> playing' # 0
      /\ (playing' # 0 /\ playing' # playing) =>
           /\ \A id \in {audio_queue[i] : i \in 1..Len(audio_queue)} :
                id < playing' => id \in finished'
           /\ playing # 0 => playing \in finished'
           /\ \A i \in 1..Len(audio_queue') : audio_queue'[i] > playing' ]_vars

\* the third utterance is played after the first two have ended, with a
\* fourth waiting in the queue
C39_Witness ==
  /\ playing = 3
  /\ finished = {1, 2}
  /\ audio_queue = <<4>>
  /\ tts_is_speaking

(***************************************************************************)
(* Claims about the avatar WebSocket.                                      *)
(***************************************************************************)
\* C40: exchanges on the socket do not interleave: at most one request is
\* sent and unanswered at any time, and each caller receives the response
\* to its own request.
C40_CallerGetsOwnResponse ==
  /\ Len(ws_unread) <= 1
  /\ \A t \in SocketTasks : ws_got[t].response = ws_got[t].request

====
